---------------------------- MODULE Spec2Model ----------------------------
(***************************************************************************)
(* Job lifecycle and processing pipeline of the PDF summariser.            *)
(*                                                                         *)
(*   app/processors/job_manager.py   Job, JobManager (the registry)        *)
(*   app/api/routes.py               process_pdf (the invoking layer) and  *)
(*                                   process_pdf_background (the pipeline) *)
(*                                                                         *)
(* Conventions.  A Python Optional is a sequence of length at most one:    *)
(* None is <<>> and a present value x is <<x>>.  The empty dict {} of      *)
(* Job.metadata is <<>> and a filled one is <<record>>.  Wall-clock time   *)
(* is the counter now, advanced by Tick; two calls may read the same time. *)
(* Spec is the application: the handlers and tasks of routes.py on the     *)
(* event loop.  RegistrySpec is the JobManager as a class used by threads: *)
(* its methods, called concurrently, one action per critical section or    *)
(* per attribute access outside of one.                                    *)
(* Request handlers are coroutines without suspension points, so each is   *)
(* one action.  A pipeline task is one action per registry call, each      *)
(* together with the stage call that precedes it; the task is a coroutine  *)
(* without suspension points too, so between its first and last statement  *)
(* only the clock moves.  A task starts some time after the request that   *)
(* dispatched it has been answered.                                        *)
(***************************************************************************)
EXTENDS Integers, Sequences, FiniteSets, TLC

(* ------------------------------ bounds --------------------------------- *)
\* number of create_job calls explored
MaxJobs == 1
\* number of accepted processing requests (dispatched pipeline runs) explored
MaxRuns == 2
\* last value of the wall clock
MaxClock == 1

(* --------------------------- Python values ----------------------------- *)
None == <<>>
Some(x) == <<x>>
\* Python truthiness of an Optional[str]: None and "" are falsy
Truthy(opt) == opt # None /\ opt[1] # ""

(* JobState, job_manager.py:23-28 *)
PENDING == "pending"
PROCESSING == "processing"
COMPLETED == "completed"
FAILED == "failed"
JobState == {PENDING, PROCESSING, COMPLETED, FAILED}

(* the ProcessRequest bodies explored, schemas.py:105-114: summary_mode and *)
(* llm_backend by value, extract_entities, entity_types (None or a list)   *)
Requests ==
    {[summary_mode |-> "brief", llm_backend |-> "openai",
      extract_entities |-> TRUE, entity_types |-> None],
     [summary_mode |-> "detailed", llm_backend |-> "hf",
      extract_entities |-> FALSE, entity_types |-> Some(<<"date", "money">>)]}

\* file_info as built by upload_pdf (routes.py:88-97)
FileInfos == {[file_path |-> "/tmp/pdf_summarizer_uploads/a.pdf",
               max_pages |-> 3, extract_tables |-> TRUE]}

(* ---------------------- outcomes of the stages ------------------------- *)
\* PDFExtractor.extract_from_file wraps every failure in a PDFExtractionError
\* with a prefixed message (pdf_extractor.py:30-51)
ExtractionErrors == {"Failed to extract pdf: damaged"}
\* EntityExtractor() raises EntityExtractionError("spacy model not found.")
\* (entity_extractor.py:23-30); extract_entities wraps nothing, so any
\* exception of the recognizer reaches the pipeline, also one whose str() is ""
EntityErrors == {"spacy model not found.", ""}
\* LLMServiceFactory.create / summarize (llm_service.py:36-92, 237-250)
SummaryErrors == {"no api key found"}

ExtractedTexts == {"page text"}
EntityLists == {<<"2025-02-13">>}
Summaries == {"a summary"}

(* ------------------------------- state --------------------------------- *)
VARIABLES
    jobs,       \* JobManager.jobs: dict job_id -> Job
    nextId,     \* number of identifiers create_job_id has handed out
    runs,       \* the dispatched process_pdf_background tasks, in order, each
                \* at a stage call or registry call it has yet to finish
    now,        \* datetime.utcnow() / time.time()
    lastOp,     \* the last step taken and what it returned to its caller
    statusLog,  \* per job id, the successive values of Job.status
    calls,      \* JobManager method calls made by threads, in order of
                \* invocation, each at the statement it has yet to execute
    lock,       \* JobManager.lock: the call that holds it, or 0
    objOf,      \* for the job ids stored by such calls: the Job object stored
    heap,       \* the Job objects no longer stored that a call still refers to
    extText,    \* extract_entities: the text argument, a sequence of characters
    extTypes,   \* extract_entities: the entity_types argument
    epc,        \* the statement the call of extract_entities has yet to execute
    docEnts,    \* doc.ents as the recognizer returned it, once it has
    extEntities, \* the local list entities, the argument of _deduplicate_entities
    seen,       \* _deduplicate_entities: the dict seen, in insertion order
    cursor,     \* _deduplicate_entities: the position of the loop in entities
    invoked,    \* the passes the call has run
    extResult,  \* what the call returned, once it has
    hfMode,     \* _get_length_params: the mode argument
    hfMaxLength, \* _get_length_params: the max_length argument
    hfLengths   \* the pair _get_length_params returned, once it has

\* the state of the application
appvars == <<jobs, nextId, runs, now, lastOp, statusLog>>
\* the state of the calls made by threads
regvars == <<calls, lock, objOf, heap>>
\* the state of a call of EntityExtractor.extract_entities
extvars == <<extText, extTypes, epc, docEnts, extEntities, seen, cursor, invoked,
             extResult>>
\* the state of a call of HuggingFaceService._get_length_params
lenvars == <<hfMode, hfMaxLength, hfLengths>>
vars == <<jobs, nextId, runs, now, lastOp, statusLog, calls, lock, objOf, heap,
          extText, extTypes, epc, docEnts, extEntities, seen, cursor, invoked,
          extResult, hfMode, hfMaxLength, hfLengths>>

\* no call of _get_length_params is in progress
LenIdle ==
    /\ hfMode = ""
    /\ hfMaxLength = <<>>
    /\ hfLengths = <<>>

\* no call of extract_entities or _deduplicate_entities is in progress
ExtIdle ==
    /\ extText = <<>>
    /\ extTypes = <<>>
    /\ epc = "idle"
    /\ docEnts = <<>>
    /\ extEntities = <<>>
    /\ seen = <<>>
    /\ cursor = 0
    /\ invoked = {}
    /\ extResult = <<>>

JobIds == 1..MaxJobs

(* Job.__init__, job_manager.py:37-61 *)
NewJob(job_id, file_info, t) ==
    [job_id |-> job_id,
     status |-> PENDING,
     created_at |-> t,
     updated_at |-> t,
     progress |-> 0,
     message |-> "Job created, awaiting processing",
     error_message |-> None,
     file_info |-> file_info,
     pdf_path |-> None,
     summary_mode |-> None,
     llm_backend |-> None,
     extract_entities |-> TRUE,
     entity_types |-> None,
     extracted_text |-> None,
     summary |-> None,
     entities |-> <<>>,
     metadata |-> <<>>,
     processing_time |-> None]

(* Job.update_status, job_manager.py:97-117 *)
update_status(job, status, progress, message, error_message, t) ==
    [job EXCEPT
        !.status = status,
        !.updated_at = t,
        !.progress = IF progress # None THEN progress[1] ELSE @,
        !.message = IF Truthy(message) THEN message[1] ELSE @,
        !.error_message = IF Truthy(error_message) THEN error_message ELSE @]

(* JobManager.get_job, job_manager.py:150-161: the stored Job or None *)
get_job(js, job_id) ==
    IF job_id \in DOMAIN js THEN Some(js[job_id]) ELSE None

(* JobManager.update_job_status, job_manager.py:168-189 *)
update_job_status(js, job_id, status, progress, message, error_message, t) ==
    IF get_job(js, job_id) # None
    THEN [js EXCEPT ![job_id] =
             update_status(@, status, progress, message, error_message, t)]
    ELSE js

(* JobManager.set_job_processing_config, job_manager.py:191-208 *)
set_job_processing_config(js, job_id, pdf_path, summary_mode, llm_backend, extract_entities, entity_types) ==
    IF get_job(js, job_id) # None
    THEN [js EXCEPT ![job_id] =
             [@ EXCEPT !.pdf_path = Some(pdf_path),
                       !.summary_mode = Some(summary_mode),
                       !.llm_backend = Some(llm_backend),
                       !.extract_entities = extract_entities,
                       !.entity_types = entity_types]]
    ELSE js

(* JobManager.set_job_results, job_manager.py:210-237 *)
set_job_results(js, job_id, extracted_text, summary, entities, metadata, processing_time) ==
    IF get_job(js, job_id) # None
    THEN [js EXCEPT ![job_id] =
             [@ EXCEPT !.extracted_text = Some(extracted_text),
                       !.summary = Some(summary),
                       !.entities = entities,
                       !.metadata = Some(metadata),
                       !.processing_time = Some(processing_time)]]
    ELSE js

\* mutant: the result is included for a job in any status
to_status_response_AnyStatus(job, include_result) ==
    [job_id |-> job.job_id,
     status |-> job.status,
     progress |-> job.progress,
     message |-> job.message,
     error_message |-> job.error_message,
     created_at |-> job.created_at,
     updated_at |-> job.updated_at,
     result |-> IF include_result
                THEN Some([job_id |-> job.job_id,
                           status |-> job.status,
                           summary |-> job.summary,
                           entities |-> job.entities,
                           metadata |-> job.metadata,
                           processing_time_seconds |-> job.processing_time])
                ELSE None]

(* Job.to_status_response, job_manager.py:63-95 *)
to_status_response(job, include_result) ==
    [job_id |-> job.job_id,
     status |-> job.status,
     progress |-> job.progress,
     message |-> job.message,
     error_message |-> job.error_message,
     created_at |-> job.created_at,
     updated_at |-> job.updated_at,
     result |-> IF include_result /\ job.status = COMPLETED
                THEN Some([job_id |-> job.job_id,
                           status |-> job.status,
                           summary |-> job.summary,
                           entities |-> job.entities,
                           metadata |-> job.metadata,
                           processing_time_seconds |-> job.processing_time])
                ELSE None]

(* ghost: the log of a job's statuses grows when the stored status changes *)
Logged(js) ==
    [id \in DOMAIN statusLog |->
        IF id \in DOMAIN js /\ statusLog[id][Len(statusLog[id])] # js[id].status
        THEN Append(statusLog[id], js[id].status)
        ELSE statusLog[id]]

\* what a step returned is a record; NoResult for a step that returns nothing
Op(name, id, result) == [op |-> name, id |-> id, result |-> result]
NoResult == [none |-> TRUE]

(* ------------------------------ Init ----------------------------------- *)
\* JobManager.__init__, job_manager.py:126-129
Init ==
    /\ jobs = <<>>
    /\ nextId = 0
    /\ runs = <<>>
    /\ now = 0
    /\ lastOp = Op("init", 0, NoResult)
    /\ statusLog = <<>>
    /\ calls = <<>>
    /\ lock = 0
    /\ objOf = <<>>
    /\ heap = <<>>
    /\ ExtIdle
    /\ LenIdle

(* time passes *)
Tick ==
    /\ now < MaxClock
    /\ now' = now + 1
    /\ lastOp' = Op("tick", 0, NoResult)
    /\ UNCHANGED <<jobs, nextId, runs, statusLog>>

(* JobManager.create_job, job_manager.py:131-148; create_job_id returns a *)
(* fresh identifier (schemas.py:233-236)                                   *)
create_job(file_info) ==
    /\ nextId < MaxJobs
    /\ LET job_id == nextId + 1 IN
        /\ nextId' = job_id
        /\ jobs' = [id \in DOMAIN jobs \cup {job_id} |->
                       IF id = job_id THEN NewJob(job_id, file_info, now)
                       ELSE jobs[id]]
        /\ statusLog' = [id \in DOMAIN statusLog \cup {job_id} |->
                       IF id = job_id THEN <<PENDING>> ELSE statusLog[id]]
        /\ lastOp' = Op("create_job", job_id, [job_id |-> job_id])
    /\ UNCHANGED <<runs, now>>

(* JobManager.delete_job, job_manager.py:260-275 *)
delete_job(job_id) ==
    /\ IF job_id \in DOMAIN jobs
       THEN /\ jobs' = [id \in DOMAIN jobs \ {job_id} |-> jobs[id]]
            /\ lastOp' = Op("delete_job", job_id, [existed |-> TRUE])
       ELSE /\ jobs' = jobs
            /\ lastOp' = Op("delete_job", job_id, [existed |-> FALSE])
    /\ UNCHANGED <<nextId, runs, now, statusLog>>

(* GET /status, routes.py:389-412 over JobManager.get_job_status,         *)
(* job_manager.py:239-253                                                  *)
get_job_status(job_id, include_result) ==
    /\ LET job == get_job(jobs, job_id) IN
        lastOp' = Op("get_job_status", job_id,
                     [view |-> IF job # None
                               THEN Some(to_status_response(job[1], include_result))
                               ELSE None])
    /\ UNCHANGED <<jobs, nextId, runs, now, statusLog>>

(* --------------------- POST /process, routes.py:118-185 ----------------- *)
\* mutant: the check for a completed job is missing
ProcessBranch_NoCompletedCheck(job) ==
    IF job = None THEN "not_found"
    ELSE IF job[1].status = PROCESSING THEN "already_processing"
    ELSE "accepted"

\* mutant: the check for a job in processing is missing
ProcessBranch_NoProcessingCheck(job) ==
    IF job = None THEN "not_found"
    ELSE IF job[1].status = COMPLETED THEN "cached"
    ELSE "accepted"

\* the branch process_pdf takes for the record get_job returned
\* (routes.py:125-148)
ProcessBranch(job) ==
    IF job = None THEN "not_found"
    ELSE IF job[1].status = PROCESSING THEN "already_processing"
    ELSE IF job[1].status = COMPLETED THEN "cached"
    ELSE "accepted"

\* mutant: the response for a completed job carries no stored summary
CachedResponse_NoSummary(job) ==
    [code |-> 200,
     job_id |-> job.job_id,
     status |-> "completed",
     summary |-> None,
     entities |-> job.entities,
     metadata |-> job.metadata,
     processing_time_seconds |-> job.processing_time]

\* the ProcessResponse for a completed job, routes.py:139-148
CachedResponse(job) ==
    [code |-> 200,
     job_id |-> job.job_id,
     status |-> "completed",
     summary |-> job.summary,
     entities |-> job.entities,
     metadata |-> job.metadata,
     processing_time_seconds |-> job.processing_time]

\* the ProcessResponse of an accepted request, routes.py:178-185
AcceptedResponse(job_id) ==
    [code |-> 200,
     job_id |-> job_id,
     status |-> "processing",
     summary |-> None,
     entities |-> <<>>,
     metadata |-> Some([message |->
         "Processing started in background. Check /status/{job_id} for updates."]),
     processing_time_seconds |-> None]

\* HTTPException(status_code, detail), routes.py:126-137
HttpError(code, detail) == [code |-> code, detail |-> detail]

\* a task as BackgroundTasks.add_task records it (routes.py:161-168), with the
\* locals of process_pdf_background and a ghost field: checkpoint, the last
\* progress value the task passed to the registry
NewTask(job_id, summary_mode, llm_backend, extract_entities, entity_types) ==
    [job_id |-> job_id,
     summary_mode |-> summary_mode,
     llm_backend |-> llm_backend,
     extract_entities |-> extract_entities,
     entity_types |-> entity_types,
     pc |-> "start",
     start_time |-> 0,
     pdf_result |-> None,
     entities |-> <<>>,
     summary |-> None,
     checkpoint |-> None]

\* a task that has returned: its arguments and locals are gone
Returned == NewTask(0, "", "", FALSE, None)

\* the registry after an accepted request: the stored config (routes.py:
\* 150-158), then the transition to Processing (routes.py:170-176)
StartProcessing(js, job, summary_mode, llm_backend, extract_entities, entity_types, t) ==
    update_job_status(
        set_job_processing_config(js, job.job_id, job.file_info.file_path,
                                  summary_mode, llm_backend, extract_entities,
                                  entity_types),
        job.job_id, PROCESSING, Some(5), Some("Processing started"), None, t)

process_pdf(job_id, summary_mode, llm_backend, extract_entities, entity_types) ==
    LET job == get_job(jobs, job_id)
        branch == ProcessBranch(job)
    IN
    /\ branch = "accepted" => Len(runs) < MaxRuns
    /\ CASE branch = "not_found" ->
              /\ lastOp' = Op("process_pdf", job_id, HttpError(404, "Job not found"))
              /\ UNCHANGED <<jobs, runs>>
         [] branch = "already_processing" ->
              /\ lastOp' = Op("process_pdf", job_id,
                              HttpError(400, "Job is already being processed"))
              /\ UNCHANGED <<jobs, runs>>
         [] branch = "cached" ->
              /\ lastOp' = Op("process_pdf", job_id, CachedResponse(job[1]))
              /\ UNCHANGED <<jobs, runs>>
         [] OTHER ->
              /\ jobs' = StartProcessing(jobs, job[1], summary_mode, llm_backend,
                                         extract_entities, entity_types, now)
              /\ runs' = Append(runs, NewTask(job_id, summary_mode, llm_backend,
                                              extract_entities, entity_types))
              /\ lastOp' = Op("process_pdf", job_id, AcceptedResponse(job_id))
    /\ statusLog' = Logged(jobs')
    /\ UNCHANGED <<nextId, now>>

(* ------------ process_pdf_background, routes.py:266-386 ----------------- *)
Runs == 1..Len(runs)

\* LLMService.get_model_info()['model'], llm_service.py:130-136, 225-231
ModelOf(llm_backend) ==
    IF llm_backend = "openai" THEN "gpt-3.5-turbo" ELSE "facebook/bart-large-cnn"

\* len(extracted_text)
TextLength(text) == IF text = "page text" THEN 9 ELSE 0

\* what PDFExtractor.extract_from_file returns (pdf_extractor.py:41-47)
PdfResults == {[text |-> t, page_count |-> 1, tables |-> <<>>] : t \in ExtractedTexts}

\* the metadata dict of routes.py:349-357
Metadata(run) ==
    [model_used |-> ModelOf(run.llm_backend),
     backend |-> run.llm_backend,
     summary_mode |-> run.summary_mode,
     entity_count |-> Len(run.entities),
     text_length |-> TextLength(run.pdf_result[1].text),
     pages_processed |-> run.pdf_result[1].page_count,
     tables_extracted |-> Len(run.pdf_result[1].tables)]

\* what a step of a task reports: the stage it called, if any, and the
\* message of the exception that call raised, if any
Step(stage, raised) == [stage |-> stage, raised |-> raised]

\* the task after a step that leaves it at pc; at "done" it has returned
After(run, pc) == IF pc = "done" THEN [Returned EXCEPT !.pc = "done"]
                  ELSE [run EXCEPT !.pc = pc]

\* one update_job_status call made by run r, which then waits at pc
RunUpdate(r, run, status, progress, message, error_message, pc, step) ==
    /\ jobs' = update_job_status(jobs, run.job_id, status, progress,
                                 message, error_message, now)
    /\ runs' = [runs EXCEPT ![r] =
                   After([run EXCEPT !.checkpoint = IF progress # None
                                                    THEN progress ELSE @], pc)]
    /\ statusLog' = Logged(jobs')
    /\ lastOp' = Op("pipeline", r, step)
    /\ UNCHANGED <<nextId, now>>

\* mutant: the except clause marks the job failed and the task goes on with
\* the summarization stage
Except_Continues(r, run, stage, msg) ==
    RunUpdate(r, run, FAILED, None, Some("Processing failed"), Some(msg),
              "summarize", Step(Some(stage), Some(msg)))

\* mutant: the except clause only logs the failure
Except_OnlyLogs(r, run, stage, msg) ==
    /\ runs' = [runs EXCEPT ![r] = After(run, "done")]
    /\ lastOp' = Op("pipeline", r, Step(Some(stage), Some(msg)))
    /\ UNCHANGED <<jobs, nextId, now, statusLog>>

\* mutant: the except clause resets the progress of the failed job
Except_ResetsProgress(r, run, stage, msg) ==
    RunUpdate(r, run, FAILED, Some(0), Some("Processing failed"), Some(msg),
              "done", Step(Some(stage), Some(msg)))

\* the call of stage raised an exception whose str() is msg: the except clause,
\* routes.py:378-386, marks the job failed with str(e) as error detail and the
\* task returns
Except(r, run, stage, msg) ==
    RunUpdate(r, run, FAILED, None, Some("Processing failed"), Some(msg),
              "done", Step(Some(stage), Some(msg)))

\* mutant: the checkpoint before the summarization stage reports progress 20
Checkpoint50_Regresses(r, run, stage) ==
    RunUpdate(r, run, PROCESSING, Some(20),
              Some("Generating summary using " \o run.llm_backend),
              None, "summarize", Step(Some(stage), None))

\* routes.py:326-331: the checkpoint before the summarization stage
Checkpoint50(r, run, stage) ==
    RunUpdate(r, run, PROCESSING, Some(50),
              Some("Generating summary using " \o run.llm_backend),
              None, "summarize", Step(Some(stage), None))

\* mutant: the task starts with the checkpoint of the entity stage
BgStart_SkipsCheckpoint(r) ==
    /\ runs[r].pc = "start"
    /\ LET run == [runs[r] EXCEPT !.start_time = now] IN
        IF get_job(jobs, run.job_id) = None
        THEN /\ runs' = [runs EXCEPT ![r] = After(run, "done")]
             /\ lastOp' = Op("pipeline", r, Step(None, None))
             /\ UNCHANGED <<jobs, nextId, now, statusLog>>
        ELSE RunUpdate(r, run, PROCESSING, Some(30),
                       Some("Extracting text from pdf"), None, "extract",
                       Step(None, None))

\* mutant: the task of a job that is gone does not return
BgStart_WaitsForJob(r) ==
    /\ runs[r].pc = "start"
    /\ get_job(jobs, runs[r].job_id) # None
    /\ RunUpdate(r, [runs[r] EXCEPT !.start_time = now], PROCESSING, Some(10),
                 Some("Extracting text from pdf"), None, "extract",
                 Step(None, None))

\* routes.py:274-292: the task starts, looks its job up and, when the job
\* exists, writes the first checkpoint and calls the extraction stage
BgStart(r) ==
    /\ runs[r].pc = "start"
    /\ LET run == [runs[r] EXCEPT !.start_time = now] IN
        IF get_job(jobs, run.job_id) = None
        THEN /\ runs' = [runs EXCEPT ![r] = After(run, "done")]
             /\ lastOp' = Op("pipeline", r, Step(None, None))
             /\ UNCHANGED <<jobs, nextId, now, statusLog>>
        ELSE RunUpdate(r, run, PROCESSING, Some(10),
                       Some("Extracting text from pdf"), None, "extract",
                       Step(None, None))

\* mutant: the entity stage is entered whether or not it was requested
BgExtract_IgnoresFlag(r) ==
    /\ runs[r].pc = "extract"
    /\ \/ \E res \in PdfResults :
            RunUpdate(r, [runs[r] EXCEPT !.pdf_result = Some(res)], PROCESSING,
                      Some(30), Some("Extracting entities from document"), None,
                      "entities", Step(Some("extraction"), None))
       \/ \E msg \in ExtractionErrors : Except(r, runs[r], "extraction", msg)

\* routes.py:294-331: the extraction stage returns or raises; on success the
\* task writes the next checkpoint and calls the next stage
BgExtract(r) ==
    /\ runs[r].pc = "extract"
    /\ \/ \E res \in PdfResults :
            LET run == [runs[r] EXCEPT !.pdf_result = Some(res)] IN
            IF run.extract_entities
            THEN RunUpdate(r, run, PROCESSING, Some(30),
                           Some("Extracting entities from document"), None,
                           "entities", Step(Some("extraction"), None))
            ELSE Checkpoint50(r, run, "extraction")
       \/ \E msg \in ExtractionErrors : Except(r, runs[r], "extraction", msg)

\* routes.py:310-331: EntityExtractor() and extract_entities return or raise
BgEntities(r) ==
    /\ runs[r].pc = "entities"
    /\ \/ \E ents \in EntityLists :
            Checkpoint50(r, [runs[r] EXCEPT !.entities = ents], "entities")
       \/ \E msg \in EntityErrors : Except(r, runs[r], "entities", msg)

\* routes.py:333-345: LLMServiceFactory.create and summarize return or raise
BgSummarize(r) ==
    /\ runs[r].pc = "summarize"
    /\ \/ \E sum \in Summaries :
            RunUpdate(r, [runs[r] EXCEPT !.summary = Some(sum)], PROCESSING,
                      Some(90), Some("Finalizing results"), None, "store",
                      Step(Some("summarization"), None))
       \/ \E msg \in SummaryErrors : Except(r, runs[r], "summarization", msg)

\* mutant: the task goes on to the completing update without storing the
\* results
BgStoreResults_Skipped(r) ==
    /\ runs[r].pc = "store"
    /\ runs' = [runs EXCEPT ![r] = After(@, "complete")]
    /\ lastOp' = Op("pipeline", r, Step(None, None))
    /\ UNCHANGED <<jobs, nextId, now, statusLog>>

\* routes.py:347-366
BgStoreResults(r) ==
    /\ runs[r].pc = "store"
    /\ LET processing_time == now - runs[r].start_time IN
        jobs' = set_job_results(jobs, runs[r].job_id,
                    runs[r].pdf_result[1].text, runs[r].summary[1],
                    runs[r].entities, Metadata(runs[r]), processing_time)
    /\ runs' = [runs EXCEPT ![r] = After(@, "complete")]
    /\ lastOp' = Op("pipeline", r, Step(None, None))
    /\ UNCHANGED <<nextId, now, statusLog>>

\* mutant: the completing update passes no progress value
BgComplete_NoProgress(r) ==
    /\ runs[r].pc = "complete"
    /\ RunUpdate(r, runs[r], COMPLETED, None,
                 Some("Processing completed successfully"), None, "done",
                 Step(None, None))

\* routes.py:368-376
BgComplete(r) ==
    /\ runs[r].pc = "complete"
    /\ RunUpdate(r, runs[r], COMPLETED, Some(100),
                 Some("Processing completed successfully"), None, "done",
                 Step(None, None))

Pipeline(r) ==
    \/ BgStart(r)
    \/ BgExtract(r)
    \/ BgEntities(r)
    \/ BgSummarize(r)
    \/ BgStoreResults(r)
    \/ BgComplete(r)

(* ----------------------------- the system ------------------------------ *)
\* the tasks that are between their first and their last statement
Running == {r \in Runs : runs[r].pc \notin {"start", "done"}}

\* process_pdf_background and the request handlers are coroutines that never
\* await (routes.py:119, 266, 390): the event loop runs each of them from its
\* first statement to its return before it runs anything else
Idle == Running = {}

\* a step of the dispatched task r: its first step waits for the event loop
Task(r) ==
    (runs[r].pc = "start" => Idle) /\ Pipeline(r) /\ UNCHANGED <<regvars, extvars, lenvars>>

Next ==
    \/ Tick /\ UNCHANGED <<regvars, extvars, lenvars>>
    \/ \E f \in FileInfos : Idle /\ create_job(f) /\ UNCHANGED <<regvars, extvars, lenvars>>
    \/ \E id \in JobIds : Idle /\ delete_job(id) /\ UNCHANGED <<regvars, extvars, lenvars>>
    \/ \E id \in JobIds, b \in BOOLEAN :
          Idle /\ get_job_status(id, b) /\ UNCHANGED <<regvars, extvars, lenvars>>
    \/ \E id \in JobIds, req \in Requests :
          /\ Idle
          /\ process_pdf(id, req.summary_mode, req.llm_backend,
                         req.extract_entities, req.entity_types)
          /\ UNCHANGED <<regvars, extvars, lenvars>>
    \/ \E r \in Runs : Idle /\ BgStart(r) /\ UNCHANGED <<regvars, extvars, lenvars>>
    \/ \E r \in Runs : BgExtract(r) /\ UNCHANGED <<regvars, extvars, lenvars>>
    \/ \E r \in Runs : BgEntities(r) /\ UNCHANGED <<regvars, extvars, lenvars>>
    \/ \E r \in Runs : BgSummarize(r) /\ UNCHANGED <<regvars, extvars, lenvars>>
    \/ \E r \in Runs : BgStoreResults(r) /\ UNCHANGED <<regvars, extvars, lenvars>>
    \/ \E r \in Runs : BgComplete(r) /\ UNCHANGED <<regvars, extvars, lenvars>>

Spec == Init /\ [][Next]_vars

\* a dispatched background task is run by the event loop until it returns
FairSpec == Spec /\ \A r \in 1..MaxRuns : WF_vars(r \in Runs /\ Task(r))

(* ------- JobManager called by threads, job_manager.py:120-294 ---------- *)
\* number of method calls explored
MaxCalls == 2

\* the identifiers create_job_id returns: twelve hexadecimal digits of a
\* random uuid4 (schemas.py:233-236), so any identifier at any call
IdSpace == {1, 2}

\* the arguments of the update_job_status calls explored: those of
\* routes.py:369-374 and routes.py:381-386
UpdateArgs ==
    {[status |-> COMPLETED, progress |-> Some(100),
      message |-> Some("Processing completed successfully"),
      error_message |-> None],
     [status |-> FAILED, progress |-> None,
      message |-> Some("Processing failed"),
      error_message |-> Some("no api key found")]}

\* a call of a method that takes no status arguments
NoArgs == [status |-> "", progress |-> None, message |-> None,
           error_message |-> None]

\* the methods that look the job up with get_job and then assign fields of
\* it under the lock
Writers == {"update_job_status", "set_job_processing_config", "set_job_results"}

\* a job whose run has written the checkpoint 90 (routes.py:340-345)
Finalizing(job_id, file_info) ==
    LET job == NewJob(job_id, file_info, 0)
        started == StartProcessing((job_id :> job), job, "brief", "openai",
                                   TRUE, None, 0)
    IN update_job_status(started, job_id, PROCESSING, Some(90),
                         Some("Finalizing results"), None, 0)[job_id]

\* the registries the calls start from: a job at checkpoint 90 and a second
\* job that awaits processing
InitialRegistries ==
    {(1 :> Finalizing(1, f)) @@ (2 :> NewJob(2, f, 0)) : f \in FileInfos}

\* the assignments a writer makes under the lock, in program order, each as
\* the fields it sets; updated_at is set to the clock as read at that moment.
\* Job.update_status (job_manager.py:105-115) skips progress when it is None
\* and message and error_message when they are falsy.  Assignments to fields
\* that nothing reads outside of the lock (the processing configuration and
\* extracted_text) are taken together with the next one.
WritePlan(kind, arg) ==
    CASE kind = "update_job_status" ->
            <<[set |-> ("status" :> arg.status), utcnow |-> FALSE],
              [set |-> <<>>, utcnow |-> TRUE]>>
            \o (IF arg.progress # None
                THEN <<[set |-> ("progress" :> arg.progress[1]), utcnow |-> FALSE]>>
                ELSE <<>>)
            \o (IF Truthy(arg.message)
                THEN <<[set |-> ("message" :> arg.message[1]), utcnow |-> FALSE]>>
                ELSE <<>>)
            \o (IF Truthy(arg.error_message)
                THEN <<[set |-> ("error_message" :> arg.error_message),
                        utcnow |-> FALSE]>>
                ELSE <<>>)
      [] kind = "set_job_processing_config" ->
            <<[set |-> [pdf_path |-> Some("/tmp/pdf_summarizer_uploads/a.pdf"),
                        summary_mode |-> Some("detailed"),
                        llm_backend |-> Some("hf"),
                        extract_entities |-> FALSE,
                        entity_types |-> Some(<<"date", "money">>)],
               utcnow |-> FALSE]>>
      [] kind = "set_job_results" ->
            <<[set |-> [extracted_text |-> Some("page text"),
                        summary |-> Some("a summary")], utcnow |-> FALSE],
              [set |-> ("entities" :> <<"2025-02-13">>), utcnow |-> FALSE],
              [set |-> ("metadata" :>
                        Some(Metadata([llm_backend |-> "openai",
                                       summary_mode |-> "brief",
                                       entities |-> <<"2025-02-13">>,
                                       pdf_result |-> Some([text |-> "page text",
                                                            page_count |-> 1,
                                                            tables |-> <<>>])]))),
               utcnow |-> FALSE],
              [set |-> ("processing_time" :> Some(0)), utcnow |-> FALSE]>>
      [] OTHER -> <<>>

\* job after the assignment w made at time t
Set(job, w, t) ==
    [f \in DOMAIN job |->
        IF w.utcnow /\ f = "updated_at" THEN t
        ELSE IF f \in DOMAIN w.set THEN w.set[f]
        ELSE job[f]]

\* the attributes Job.to_status_response reads, in program order
\* (job_manager.py:73-93): the fields of the response, then status for the
\* test of line 85, then the fields of the result.  job_id and created_at
\* never change and are not listed.
ReadPlan ==
    <<"status", "progress", "message", "error_message", "updated_at",
      "status",
      "status", "summary", "entities", "metadata", "processing_time">>

\* a call as it starts
NewCall(kind, id, arg) ==
    [kind |-> kind, id |-> id, arg |-> arg,
     pc |-> 1,           \* the next assignment or read of its plan
     done |-> FALSE,     \* it has returned
     ref |-> 0,          \* the Job object get_job returned to it, 0 for None
     vals |-> <<>>,      \* the values it has read so far
     before |-> None,    \* ghost: the object as it was when it took the lock
     clean |-> {},       \* ghost: the states of the object, outside of any
                         \* writer's critical section, since it looked it up
     result |-> NoResult]

\* a call that has returned from a method other than create_job and
\* delete_job: its arguments and locals are gone
Finished == [NewCall("", 0, NoArgs) EXCEPT !.done = TRUE]

\* what a step of a call that does not return reports
Stepped == Op("step", 0, NoResult)

Calls == 1..Len(calls)

\* the id under which object o is stored, if any
IdOf(o) == {id \in DOMAIN objOf : objOf[id] = o}
\* the Job object o
Obj(o) == IF IdOf(o) # {} THEN jobs[CHOOSE id \in IdOf(o) : TRUE] ELSE heap[o]

\* some call still refers to object o; the caller of get_job keeps the
\* reference it was given
Held(cs, o) ==
    \E c \in 1..Len(cs) :
        cs[c].ref = o /\ (~cs[c].done \/ cs[c].kind = "get_job")

\* the objects no longer stored, without those that nothing refers to
Gc(h, cs) == [o \in {x \in DOMAIN h : Held(cs, x)} |-> h[o]]

\* datetime.utcnow() as the calls read it: the time of the last reading or a
\* later one (only the order of two readings shows in the registry); the
\* time is now when the step does not read the clock
UtcNow(reads) == IF reads THEN {now, now + 1} ELSE {now}

\* mutant: a critical section is entered whether or not the lock is held
CanAcquire_NoLock(c) == TRUE

\* `with self.lock:` is entered by call c
CanAcquire(c) == lock = 0 \/ lock = c

\* the registry and the objects no longer stored after the assignment w to
\* object o at time t
Assigned(js, o, w, t) ==
    IF IdOf(o) # {}
    THEN [js EXCEPT ![CHOOSE id \in IdOf(o) : TRUE] = Set(@, w, t)]
    ELSE js
AssignedHeap(h, o, w, t) ==
    IF IdOf(o) # {} THEN h ELSE [h EXCEPT ![o] = Set(@, w, t)]

\* the registry without id, and the object it stored kept while referred to
Unstored(h, id) ==
    IF id \in DOMAIN objOf /\ Held(calls, objOf[id])
    THEN h @@ (objOf[id] :> jobs[id])
    ELSE h

\* mutant: a method called for an identifier that is not stored stores a new
\* job under it
LookUp_StoresMissing(kind, id, arg) ==
    /\ Len(calls) < MaxCalls
    /\ CanAcquire(Len(calls) + 1)
    /\ calls' = Append(calls, Finished)
    /\ lastOp' = Op(kind, id, IF kind = "get_job_status" THEN [view |-> None]
                              ELSE IF kind = "get_job" THEN [job |-> 0]
                              ELSE NoResult)
    /\ jobs' = IF id \in DOMAIN jobs THEN jobs
               ELSE jobs @@ (id :> NewJob(id, CHOOSE f \in FileInfos : TRUE, now))
    /\ objOf' = IF id \in DOMAIN jobs THEN objOf ELSE objOf @@ (id :> nextId + 1)
    /\ UNCHANGED <<nextId, now, lock, heap>>

\* JobManager.get_job (job_manager.py:160-161) as the first statement of
\* update_job_status, set_job_processing_config, set_job_results and
\* get_job_status, or called for itself: under the lock, it returns the
\* stored Job object itself, or None
LookUp(kind, id, arg) ==
    /\ Len(calls) < MaxCalls
    /\ CanAcquire(Len(calls) + 1)
    /\ LET o == IF id \in DOMAIN jobs THEN objOf[id] ELSE 0
           call == NewCall(kind, id, arg)
       IN IF o = 0
          THEN /\ calls' = Append(calls, Finished)
               /\ lastOp' = Op(kind, id,
                               IF kind = "get_job_status" THEN [view |-> None]
                               ELSE IF kind = "get_job" THEN [job |-> 0]
                               ELSE NoResult)
          ELSE IF kind = "get_job"
          THEN /\ calls' = Append(calls, [call EXCEPT !.ref = o, !.done = TRUE])
               /\ lastOp' = Op(kind, id, [job |-> o])
          ELSE /\ calls' = Append(calls, [call EXCEPT !.ref = o,
                                                     !.clean = {jobs[id]}])
               /\ lastOp' = Op(kind, id, NoResult)
    /\ UNCHANGED <<jobs, nextId, now, lock, objOf, heap>>

\* one assignment of a writer, job_manager.py:188-189, 203-208, 232-237: the
\* first one enters `with self.lock:` and the last one leaves it
Assign(c) ==
    /\ calls[c].kind \in Writers
    /\ ~calls[c].done
    /\ CanAcquire(c)
    /\ \E t \in UtcNow(WritePlan(calls[c].kind, calls[c].arg)[calls[c].pc].utcnow) :
       LET call == calls[c]
           plan == WritePlan(call.kind, call.arg)
           w == plan[call.pc]
           last == call.pc = Len(plan)
           js == Assigned(jobs, call.ref, w, t)
           h == AssignedHeap(heap, call.ref, w, t)
           obj == IF IdOf(call.ref) # {}
                  THEN js[CHOOSE id \in IdOf(call.ref) : TRUE]
                  ELSE h[call.ref]
           cs == [d \in Calls |->
                    IF d = c
                    THEN IF last THEN Finished
                         ELSE [call EXCEPT !.pc = @ + 1,
                                           !.before = IF call.pc = 1
                                                      THEN Some(Obj(call.ref))
                                                      ELSE @]
                    ELSE IF last /\ ~calls[d].done /\ calls[d].ref = call.ref
                            /\ calls[d].kind = "get_job_status"
                    THEN [calls[d] EXCEPT !.clean = @ \cup {obj}]
                    ELSE calls[d]]
       IN /\ jobs' = js
          /\ calls' = cs
          /\ heap' = Gc(h, cs)
          /\ lock' = IF last THEN 0 ELSE c
          /\ lastOp' = IF last THEN Op(call.kind, call.id, NoResult) ELSE Stepped
          /\ now' = t
    /\ UNCHANGED <<nextId, objOf>>

\* the response Job.to_status_response builds from the values it has read
\* (job_manager.py:73-95)
ViewOf(job, vals) ==
    [job_id |-> job.job_id,
     status |-> vals[1],
     progress |-> vals[2],
     message |-> vals[3],
     error_message |-> vals[4],
     created_at |-> job.created_at,
     updated_at |-> vals[5],
     result |-> IF Len(vals) = Len(ReadPlan)
                THEN Some([job_id |-> job.job_id,
                           status |-> vals[7],
                           summary |-> vals[8],
                           entities |-> vals[9],
                           metadata |-> vals[10],
                           processing_time_seconds |-> vals[11]])
                ELSE None]

\* one attribute read of Job.to_status_response, called by get_job_status
\* (job_manager.py:250-252) outside of the lock; the sixth decides whether
\* the result is built (include_result is true, routes.py:392)
Read(c) ==
    /\ calls[c].kind = "get_job_status"
    /\ ~calls[c].done
    /\ LET call == calls[c]
           job == Obj(call.ref)
           vals == Append(call.vals, job[ReadPlan[call.pc]])
           last == \/ call.pc = Len(ReadPlan)
                   \/ call.pc = 6 /\ vals[6] # COMPLETED
           cs == [calls EXCEPT ![c] =
                    IF last THEN Finished
                    ELSE [call EXCEPT !.pc = @ + 1, !.vals = vals]]
       IN /\ calls' = cs
          /\ heap' = Gc(heap, cs)
          /\ lastOp' = IF last
                       THEN Op(call.kind, call.id, [view |-> Some(ViewOf(job, vals))])
                       ELSE Stepped
    /\ UNCHANGED <<jobs, nextId, now, lock, objOf>>

\* mutant: delete_job reports a deletion whether or not the id was stored
Delete_ReportsTrue(id) ==
    /\ Len(calls) < MaxCalls
    /\ CanAcquire(Len(calls) + 1)
    /\ calls' = Append(calls,
          [NewCall("delete_job", id, NoArgs) EXCEPT
              !.done = TRUE, !.result = [existed |-> TRUE],
              !.ref = IF id \in DOMAIN jobs THEN objOf[id] ELSE 0])
    /\ jobs' = [i \in DOMAIN jobs \ {id} |-> jobs[i]]
    /\ objOf' = [i \in DOMAIN objOf \ {id} |-> objOf[i]]
    /\ heap' = Unstored(heap, id)
    /\ lastOp' = Op("delete_job", id, [existed |-> TRUE])
    /\ UNCHANGED <<nextId, now, lock>>

\* JobManager.delete_job, job_manager.py:270-275, one critical section
Delete(id) ==
    /\ Len(calls) < MaxCalls
    /\ CanAcquire(Len(calls) + 1)
    /\ calls' = Append(calls,
          [NewCall("delete_job", id, NoArgs) EXCEPT
              !.done = TRUE, !.result = [existed |-> id \in DOMAIN jobs],
              !.ref = IF id \in DOMAIN jobs THEN objOf[id] ELSE 0])
    /\ jobs' = [i \in DOMAIN jobs \ {id} |-> jobs[i]]
    /\ objOf' = [i \in DOMAIN objOf \ {id} |-> objOf[i]]
    /\ heap' = Unstored(heap, id)
    /\ lastOp' = Op("delete_job", id, [existed |-> id \in DOMAIN jobs])
    /\ UNCHANGED <<nextId, now, lock>>

\* create_job_id(), job_manager.py:141: the identifier is drawn before the
\* lock is taken
DrawId(id) ==
    /\ Len(calls) < MaxCalls
    /\ calls' = Append(calls, NewCall("create_job", id, NoArgs))
    /\ lastOp' = Stepped
    /\ UNCHANGED <<jobs, nextId, now, lock, objOf, heap>>

\* JobManager.create_job, job_manager.py:143-148: under the lock a new Job is
\* stored under the identifier drawn, whatever was stored under it
Store(c, file_info) ==
    /\ calls[c].kind = "create_job"
    /\ ~calls[c].done
    /\ CanAcquire(c)
    /\ \E t \in UtcNow(TRUE) :
       LET id == calls[c].id IN
        /\ jobs' = [i \in DOMAIN jobs \cup {id} |->
                      IF i = id THEN NewJob(id, file_info, t) ELSE jobs[i]]
        /\ objOf' = [i \in DOMAIN objOf \cup {id} |->
                      IF i = id THEN nextId + 1 ELSE objOf[i]]
        /\ heap' = Unstored(heap, id)
        /\ calls' = [calls EXCEPT ![c] =
                       [@ EXCEPT !.done = TRUE, !.ref = nextId + 1,
                                 !.result = [job_id |-> id]]]
        /\ now' = t
    /\ nextId' = nextId + 1
    /\ lastOp' = Op("create_job", calls[c].id, [job_id |-> calls[c].id])
    /\ UNCHANGED lock

\* the values of the dict in the order of their keys
RECURSIVE Values(_, _)
Values(m, ids) ==
    IF ids = {} THEN <<>>
    ELSE LET id == CHOOSE i \in ids : \A j \in ids : i <= j
         IN <<m[id]>> \o Values(m, ids \ {id})

\* the statistics before any job is counted, job_manager.py:280-286
NoStats(total) ==
    [total_jobs |-> total, by_status |-> [s \in JobState |-> 0]]

\* job_manager.py:288-289: by_status[job.status.value] += 1
Counted(stats, status) == [stats EXCEPT !.by_status[status] = @ + 1]

\* JobManager.get_stats enters the lock, job_manager.py:279-286: the total
\* and the empty counts
StartStats ==
    /\ Len(calls) < MaxCalls
    /\ CanAcquire(Len(calls) + 1)
    /\ LET todo == Values(objOf, DOMAIN objOf)
           stats == NoStats(Cardinality(DOMAIN jobs))
       IN IF todo = <<>>
          THEN /\ calls' = Append(calls, Finished)
               /\ lastOp' = Op("get_stats", 0, stats)
               /\ lock' = lock
          ELSE /\ calls' = Append(calls,
                      [NewCall("get_stats", 0, NoArgs) EXCEPT
                          !.vals = todo, !.result = stats])
               /\ lastOp' = Stepped
               /\ lock' = Len(calls) + 1
    /\ UNCHANGED <<jobs, nextId, now, objOf, heap>>

\* one iteration of the loop of get_stats, job_manager.py:288-289; after the
\* last one the lock is left and the statistics are returned
Count(c) ==
    /\ calls[c].kind = "get_stats"
    /\ ~calls[c].done
    /\ CanAcquire(c)
    /\ LET call == calls[c]
           o == Head(call.vals)
           last == Len(call.vals) = 1
           stats == IF IdOf(o) # {} \/ o \in DOMAIN heap
                    THEN Counted(call.result, Obj(o).status)
                    ELSE call.result
       IN /\ calls' = [calls EXCEPT ![c] =
                IF last THEN Finished
                ELSE [call EXCEPT !.vals = Tail(@), !.result = stats]]
          /\ lock' = IF last THEN 0 ELSE c
          /\ lastOp' = IF last THEN Op("get_stats", 0, stats) ELSE Stepped
    /\ UNCHANGED <<jobs, nextId, now, objOf, heap>>

\* the caller of get_job assigns a field of the Job it was given
CallerAssigns(c) ==
    /\ calls[c].kind = "get_job"
    /\ calls[c].ref # 0
    /\ calls[c].vals = <<>>
    /\ LET w == [set |-> ("status" :> FAILED), utcnow |-> FALSE] IN
        /\ jobs' = Assigned(jobs, calls[c].ref, w, now)
        /\ heap' = AssignedHeap(heap, calls[c].ref, w, now)
    /\ calls' = [calls EXCEPT ![c] = [@ EXCEPT !.vals = <<"assigned">>]]
    /\ lastOp' = Op("assign", calls[c].id, NoResult)
    /\ UNCHANGED <<nextId, now, lock, objOf>>

\* the registry before any call: one of the initial registries, each job
\* stored as the object of its number
RegInit ==
    /\ jobs \in InitialRegistries
    /\ nextId = Cardinality(DOMAIN jobs)
    /\ objOf = [id \in DOMAIN jobs |-> id]
    /\ runs = <<>>
    /\ now = 0
    /\ lastOp = Op("init", 0, NoResult)
    /\ statusLog = <<>>
    /\ calls = <<>>
    /\ lock = 0
    /\ heap = <<>>
    /\ ExtIdle
    /\ LenIdle

RegNext ==
    \/ \E id \in IdSpace, arg \in UpdateArgs :
          LookUp("update_job_status", id, arg) /\ UNCHANGED <<runs, statusLog, extvars, lenvars>>
    \/ \E id \in IdSpace, kind \in {"set_job_processing_config", "set_job_results",
                                    "get_job_status", "get_job"} :
          LookUp(kind, id, NoArgs) /\ UNCHANGED <<runs, statusLog, extvars, lenvars>>
    \/ \E c \in Calls : Assign(c) /\ UNCHANGED <<runs, statusLog, extvars, lenvars>>
    \/ \E c \in Calls : Read(c) /\ UNCHANGED <<runs, statusLog, extvars, lenvars>>
    \/ \E id \in IdSpace : Delete(id) /\ UNCHANGED <<runs, statusLog, extvars, lenvars>>
    \/ \E id \in IdSpace : DrawId(id) /\ UNCHANGED <<runs, statusLog, extvars, lenvars>>
    \/ \E c \in Calls, f \in FileInfos : Store(c, f) /\ UNCHANGED <<runs, statusLog, extvars, lenvars>>
    \/ StartStats /\ UNCHANGED <<runs, statusLog, extvars, lenvars>>
    \/ \E c \in Calls : Count(c) /\ UNCHANGED <<runs, statusLog, extvars, lenvars>>

\* the methods of JobManager called by any number of threads
RegistrySpec == RegInit /\ [][RegNext]_vars

\* the same, with callers that assign to the Job objects get_job gave them
AliasNext ==
    \/ RegNext
    \/ \E c \in Calls : CallerAssigns(c) /\ UNCHANGED <<runs, statusLog, extvars, lenvars>>

AliasSpec == RegInit /\ [][AliasNext]_vars

(* ------------------------------ strings -------------------------------- *)
\* A Python str is the sequence of its characters, each a one-character
\* string.
UpperCase ==
    <<"A", "B", "C", "D", "E", "F", "G", "H", "I", "J", "K", "L", "M",
      "N", "O", "P", "Q", "R", "S", "T", "U", "V", "W", "X", "Y", "Z">>
LowerCase ==
    <<"a", "b", "c", "d", "e", "f", "g", "h", "i", "j", "k", "l", "m",
      "n", "o", "p", "q", "r", "s", "t", "u", "v", "w", "x", "y", "z">>
DigitChars == <<"0", "1", "2", "3", "4", "5", "6", "7", "8", "9">>
Range(f) == {f[x] : x \in DOMAIN f}
Letters == Range(UpperCase) \cup Range(LowerCase)
DigitSet == Range(DigitChars)
\* the characters str.strip() removes and \s matches
Whitespace == {" ", "\t", "\n", "\r"}
\* the characters \w matches
WordChars == Letters \cup DigitSet \cup {"_"}

\* str.lower() and str.upper(), character by character
LowerChar(c) ==
    IF c \in Range(UpperCase)
    THEN LowerCase[CHOOSE i \in 1..26 : UpperCase[i] = c] ELSE c
UpperChar(c) ==
    IF c \in Range(LowerCase)
    THEN UpperCase[CHOOSE i \in 1..26 : LowerCase[i] = c] ELSE c
lower(s) == [i \in DOMAIN s |-> LowerChar(s[i])]
upper(s) == [i \in DOMAIN s |-> UpperChar(s[i])]

\* int() of a string of digits
DigitVal(c) == (CHOOSE i \in 1..10 : DigitChars[i] = c) - 1
RECURSIVE int(_)
int(s) == IF s = <<>> THEN 0
          ELSE 10 * int(SubSeq(s, 1, Len(s) - 1)) + DigitVal(s[Len(s)])
\* the decimal digits of n, at least width of them ("%02d", "%04d")
RECURSIVE Padded(_, _)
Padded(n, width) ==
    IF n < 10 /\ width <= 1 THEN <<DigitChars[n + 1]>>
    ELSE Padded(n \div 10, width - 1) \o <<DigitChars[(n % 10) + 1]>>

\* str.strip()
RECURSIVE lstrip(_)
lstrip(s) == IF s # <<>> /\ s[1] \in Whitespace THEN lstrip(Tail(s)) ELSE s
RECURSIVE rstrip(_)
rstrip(s) == IF s # <<>> /\ s[Len(s)] \in Whitespace
             THEN rstrip(SubSeq(s, 1, Len(s) - 1)) ELSE s
strip(s) == rstrip(lstrip(s))
\* str.replace(c, '') for a one-character c
RECURSIVE remove(_, _)
remove(s, c) == IF s = <<>> THEN <<>>
                ELSE (IF s[1] = c THEN <<>> ELSE <<s[1]>>) \o remove(Tail(s), c)
\* t in s
Contains(s, t) ==
    \E i \in 1..(Len(s) - Len(t) + 1) : SubSeq(s, i, i + Len(t) - 1) = t
\* str.isdigit(): not empty and digits only
isdigit(s) == s # <<>> /\ \A i \in DOMAIN s : s[i] \in DigitSet

(* ------------------------- regular expressions ------------------------- *)
\* A pattern is a sequence of elements, matched with backtracking as the re
\* module does: an element offers the positions at which it can end in the
\* order in which re tries them, and the first choice with which the rest of
\* the pattern matches is taken.
\*   Lit    one of the strings alts, tried in order (ci: ignoring case)
\*   Class  min to max characters of set, as many as possible first
\*   Group  min to max repetitions of the pattern sub, as many as possible
\*   Bound  \b, the empty string at a word boundary
Lit(alts, ci) == [kind |-> "lit", alts |-> alts, ci |-> ci, set |-> {},
                  min |-> 1, max |-> 1, sub |-> <<>>]
Class(set, min, max) == [kind |-> "class", alts |-> <<>>, ci |-> FALSE,
                         set |-> set, min |-> min, max |-> max, sub |-> <<>>]
Group(sub, min, max) == [kind |-> "group", alts |-> <<>>, ci |-> FALSE,
                         set |-> {}, min |-> min, max |-> max, sub |-> sub]
Bound == [kind |-> "bound", alts |-> <<>>, ci |-> FALSE, set |-> {},
          min |-> 0, max |-> 0, sub |-> <<>>]
\* x? for a string x
Opt(x) == Lit(<<x, <<>>>>, FALSE)
\* no bound on the repetitions
Many == 1000

\* s has the string t at position i
At(s, i, t, ci) ==
    /\ i + Len(t) - 1 <= Len(s)
    /\ LET u == SubSeq(s, i, i + Len(t) - 1) IN
       IF ci THEN lower(u) = lower(t) ELSE u = t

\* position i of s is a word boundary
AtBoundary(s, i) ==
    (i > 1 /\ s[i - 1] \in WordChars) # (i <= Len(s) /\ s[i] \in WordChars)

\* the number of characters of set that s has from position i on
RECURSIVE Run(_, _, _)
Run(s, i, set) ==
    IF i <= Len(s) /\ s[i] \in set THEN 1 + Run(s, i + 1, set) ELSE 0

\* the concatenation of the sequences of qs
RECURSIVE Concat(_)
Concat(qs) == IF qs = <<>> THEN <<>> ELSE Head(qs) \o Concat(Tail(qs))

RECURSIVE Ends(_, _, _, _)
RECURSIVE Offers(_, _, _)
RECURSIVE Repeats(_, _, _, _)
\* the positions after position i at which n or more further repetitions of
\* the group el can end, in the order in which re tries them
Repeats(el, s, i, n) ==
    (IF n < el.max
     THEN LET once == Ends(el.sub, 1, s, i) IN
          Concat([x \in DOMAIN once |->
                     IF once[x] > i THEN Repeats(el, s, once[x], n + 1)
                     ELSE <<>>])
     ELSE <<>>)
    \o (IF n >= el.min THEN <<i>> ELSE <<>>)
\* the positions at which element el can end when it starts at i
Offers(el, s, i) ==
    CASE el.kind = "lit" ->
           Concat([x \in DOMAIN el.alts |->
                      IF At(s, i, el.alts[x], el.ci)
                      THEN <<i + Len(el.alts[x])>> ELSE <<>>])
      [] el.kind = "class" ->
           LET run == Run(s, i, el.set)
               most == IF run < el.max THEN run ELSE el.max
           IN [x \in 1..(most - el.min + 1) |-> i + most - x + 1]
      [] el.kind = "group" -> Repeats(el, s, i, 0)
      [] OTHER -> IF AtBoundary(s, i) THEN <<i>> ELSE <<>>
\* the positions at which a match of the elements k, k+1, ... of pattern re
\* that starts at i can end, in the order in which re finds them
Ends(re, k, s, i) ==
    IF k > Len(re) THEN <<i>>
    ELSE LET offers == Offers(re[k], s, i) IN
         Concat([x \in DOMAIN offers |-> Ends(re, k + 1, s, offers[x])])

RECURSIVE Match(_, _, _, _)
\* re.match from position i: None, or the positions at which the elements
\* k, k+1, ... end in the match re finds
Match(re, k, s, i) ==
    IF k > Len(re) THEN Some(<<>>)
    ELSE LET offers == Offers(re[k], s, i)
             good == {x \in DOMAIN offers : Match(re, k + 1, s, offers[x]) # None}
         IN IF good = {} THEN None
            ELSE LET x == CHOOSE y \in good : \A z \in good : y <= z IN
                 Some(<<offers[x]>> \o Match(re, k + 1, s, offers[x])[1])

RECURSIVE finditer(_, _, _)
\* pattern.finditer(text): the matched strings from position i on, from left
\* to right without overlap
finditer(re, s, i) ==
    IF i > Len(s) THEN <<>>
    ELSE LET m == Match(re, 1, s, i) IN
         IF m = None \/ m[1][Len(re)] = i THEN finditer(re, s, i + 1)
         ELSE <<SubSeq(s, i, m[1][Len(re)] - 1)>> \o finditer(re, s, m[1][Len(re)])

\* calendar.month_name and calendar.month_abbr of the C locale, which
\* datetime.strptime uses for %B and %b
MonthNames ==
    <<<<"J", "a", "n", "u", "a", "r", "y">>,
      <<"F", "e", "b", "r", "u", "a", "r", "y">>,
      <<"M", "a", "r", "c", "h">>,
      <<"A", "p", "r", "i", "l">>,
      <<"M", "a", "y">>,
      <<"J", "u", "n", "e">>,
      <<"J", "u", "l", "y">>,
      <<"A", "u", "g", "u", "s", "t">>,
      <<"S", "e", "p", "t", "e", "m", "b", "e", "r">>,
      <<"O", "c", "t", "o", "b", "e", "r">>,
      <<"N", "o", "v", "e", "m", "b", "e", "r">>,
      <<"D", "e", "c", "e", "m", "b", "e", "r">>>>
MonthAbbrs == [m \in 1..12 |-> SubSeq(MonthNames[m], 1, 3)]
\* Jan(?:uary)?|Feb(?:ruary)?|...|May|...|Dec(?:ember)?, entity_extractor.py:42-43:
\* the optional tail is tried first
MonthAlternatives ==
    <<<<"J", "a", "n", "u", "a", "r", "y">>,
      <<"J", "a", "n">>,
      <<"F", "e", "b", "r", "u", "a", "r", "y">>,
      <<"F", "e", "b">>,
      <<"M", "a", "r", "c", "h">>,
      <<"M", "a", "r">>,
      <<"A", "p", "r", "i", "l">>,
      <<"A", "p", "r">>,
      <<"M", "a", "y">>,
      <<"J", "u", "n", "e">>,
      <<"J", "u", "n">>,
      <<"J", "u", "l", "y">>,
      <<"J", "u", "l">>,
      <<"A", "u", "g", "u", "s", "t">>,
      <<"A", "u", "g">>,
      <<"S", "e", "p", "t", "e", "m", "b", "e", "r">>,
      <<"S", "e", "p">>,
      <<"O", "c", "t", "o", "b", "e", "r">>,
      <<"O", "c", "t">>,
      <<"N", "o", "v", "e", "m", "b", "e", "r">>,
      <<"N", "o", "v">>,
      <<"D", "e", "c", "e", "m", "b", "e", "r">>,
      <<"D", "e", "c">>>>

(* ------------- EntityExtractor, entity_extractor.py:20-223 ------------- *)
\* EntityType, schemas.py:17-23
DATE == "date"
MONEY == "money"
PERSON == "person"
ORGANIZATION == "organization"
LOCATION == "location"
EntityType == <<DATE, MONEY, PERSON, ORGANIZATION, LOCATION>>

\* Entity, schemas.py:26-31; confidence in hundredths
Entity(type, text, value, confidence) ==
    [type |-> type, text |-> text, value |-> value, confidence |-> confidence]

\* date_patterns, entity_extractor.py:40-51, compiled with re.IGNORECASE
date_patterns ==
    <<<<Bound, Lit(MonthAlternatives, TRUE), Class(Whitespace, 1, Many),
        Class(DigitSet, 1, 2),
        Lit(<<<<"s", "t">>, <<"n", "d">>, <<"r", "d">>, <<"t", "h">>, <<>>>>, TRUE),
        Opt(<<",">>), Class(Whitespace, 1, Many), Class(DigitSet, 4, 4), Bound>>,
      <<Bound, Class(DigitSet, 1, 2), Lit(<<<<"-">>, <<"/">>>>, FALSE),
        Class(DigitSet, 1, 2), Lit(<<<<"-">>, <<"/">>>>, FALSE),
        Class(DigitSet, 2, 4), Bound>>,
      <<Bound, Class(DigitSet, 4, 4), Lit(<<<<"-">>>>, FALSE),
        Class(DigitSet, 2, 2), Lit(<<<<"-">>>>, FALSE), Class(DigitSet, 2, 2),
        Bound>>>>

\* money_patterns, entity_extractor.py:54-60
money_patterns ==
    <<<<Lit(<<<<"$">>>>, FALSE), Class(Whitespace, 0, Many), Class(DigitSet, 1, 3),
        Group(<<Lit(<<<<",">>>>, FALSE), Class(DigitSet, 3, 3)>>, 0, Many),
        Group(<<Lit(<<<<".">>>>, FALSE), Class(DigitSet, 2, 2)>>, 0, 1)>>,
      <<Bound, Class(DigitSet, 1, Many),
        Group(<<Lit(<<<<".">>>>, FALSE), Class(DigitSet, 1, Many)>>, 0, 1),
        Lit(<<<<"%">>>>, FALSE)>>>>

\* the formats of _parse_date, entity_extractor.py:129-135
formats ==
    <<<<"%b", " ", "%d", " ", "%Y">>,
      <<"%B", " ", "%d", ",", " ", "%Y">>,
      <<"%m", "/", "%d", "/", "%Y">>,
      <<"%d", "-", "%m", "-", "%Y">>,
      <<"%Y", "-", "%m", "-", "%d">>>>

\* the two digits of n
TwoDigits(n) == <<DigitChars[(n \div 10) + 1], DigitChars[(n % 10) + 1]>>
\* the regular expression datetime.strptime makes of an item of a format:
\*   %d  3[0-1]|[1-2]\d|0[1-9]|[1-9]| [1-9]      %Y  \d\d\d\d
\*   %m  1[0-2]|0[1-9]|[1-9]                      %b, %B  the month names
\*   white space  \s+                             another character: itself
Directive(item) ==
    CASE item = "%d" ->
           Lit([n \in 1..2 |-> TwoDigits(29 + n)]
               \o [n \in 1..20 |-> TwoDigits(9 + n)]
               \o [n \in 1..9 |-> TwoDigits(n)]
               \o [n \in 1..9 |-> <<DigitChars[n + 1]>>]
               \o [n \in 1..9 |-> <<" ", DigitChars[n + 1]>>], TRUE)
      [] item = "%m" ->
           Lit([n \in 1..3 |-> TwoDigits(9 + n)]
               \o [n \in 1..9 |-> TwoDigits(n)]
               \o [n \in 1..9 |-> <<DigitChars[n + 1]>>], TRUE)
      [] item = "%Y" -> Class(DigitSet, 4, 4)
      [] item = "%b" -> Lit(MonthAbbrs, TRUE)
      [] item = "%B" -> Lit(MonthNames, TRUE)
      [] item = " " -> Class(Whitespace, 1, Many)
      [] OTHER -> Lit(<<<<item>>>>, TRUE)

\* the number of days of a month
DaysIn(year, month) ==
    IF month = 2
    THEN (IF year % 4 = 0 /\ (year % 100 # 0 \/ year % 400 = 0) THEN 29 ELSE 28)
    ELSE IF month \in {4, 6, 9, 11} THEN 30 ELSE 31

\* datetime.strptime(data_string, format): None for a ValueError (no match,
\* unconverted data, or a day the month does not have), else the date
strptime(data_string, format) ==
    LET re == [k \in DOMAIN format |-> Directive(format[k])]
        m == Match(re, 1, data_string, 1)
    IN IF m = None \/ m[1][Len(re)] # Len(data_string) + 1 THEN None
       ELSE LET ends == m[1]
                Field(k) == SubSeq(data_string,
                                   IF k = 1 THEN 1 ELSE ends[k - 1], ends[k] - 1)
                At1(item) == CHOOSE k \in DOMAIN format : format[k] = item
                year == int(Field(At1("%Y")))
                day == int(lstrip(Field(At1("%d"))))
                month ==
                    IF \E k \in DOMAIN format : format[k] = "%m"
                    THEN int(Field(At1("%m")))
                    ELSE IF \E k \in DOMAIN format : format[k] = "%b"
                    THEN CHOOSE n \in 1..12 :
                            lower(MonthAbbrs[n]) = lower(Field(At1("%b")))
                    ELSE CHOOSE n \in 1..12 :
                            lower(MonthNames[n]) = lower(Field(At1("%B")))
            IN IF year >= 1 /\ day <= DaysIn(year, month)
               THEN Some([year |-> year, month |-> month, day |-> day])
               ELSE None

\* dt.strftime("%Y-%m-%d")
strftime(dt) ==
    Padded(dt.year, 4) \o <<"-">> \o Padded(dt.month, 2) \o <<"-">>
        \o Padded(dt.day, 2)

RECURSIVE TryFormats(_, _)
\* the loop of _parse_date from format k on, entity_extractor.py:137-144
TryFormats(date_str, k) ==
    IF k > Len(formats) THEN None
    ELSE LET dt == strptime(remove(date_str, ","), formats[k]) IN
         IF dt # None THEN Some(strftime(dt[1])) ELSE TryFormats(date_str, k + 1)

\* EntityExtractor._parse_date, entity_extractor.py:127-144
parse_date(date_str) == TryFormats(date_str, 1)

RECURSIVE Unique(_)
\* the members of a sequence of strings without those seen before
Unique(q) ==
    IF q = <<>> THEN <<>>
    ELSE LET rest == Unique(SubSeq(q, 1, Len(q) - 1)) IN
         IF \E i \in 1..(Len(q) - 1) : q[i] = q[Len(q)] THEN rest
         ELSE Append(rest, q[Len(q)])

\* the texts the patterns match in text, pattern after pattern, each once
Matches(patterns, text) ==
    Unique(Concat([p \in DOMAIN patterns |-> finditer(patterns[p], text, 1)]))

\* mutant: a match that no format parses is not emitted
extract_dates_SkipsUnparsed(text) ==
    LET found == Matches(date_patterns, text) IN
    SelectSeq([k \in DOMAIN found |->
                  Entity(DATE, found[k], parse_date(found[k]), 90)],
              LAMBDA entity : entity.value # None)

\* EntityExtractor._extract_dates, entity_extractor.py:102-125
extract_dates(text) ==
    LET found == Matches(date_patterns, text) IN
    [k \in DOMAIN found |-> Entity(DATE, found[k], parse_date(found[k]), 90)]

\* float(s) as Python prints it, for s of the form digits or digits.digits:
\* no leading zeros, no trailing zeros, at least one digit on either side
RECURSIVE NoLeadingZeros(_)
NoLeadingZeros(s) ==
    IF Len(s) > 1 /\ s[1] = "0" THEN NoLeadingZeros(Tail(s)) ELSE s
RECURSIVE NoTrailingZeros(_)
NoTrailingZeros(s) ==
    IF Len(s) > 1 /\ s[Len(s)] = "0"
    THEN NoTrailingZeros(SubSeq(s, 1, Len(s) - 1)) ELSE s
float(s) ==
    LET whole == Run(s, 1, DigitSet)
        frac == IF whole < Len(s) THEN SubSeq(s, whole + 2, Len(s)) ELSE <<"0">>
    IN IF /\ whole >= 1
          /\ (whole = Len(s)
                \/ (s[whole + 1] = "." /\ whole + 1 < Len(s) /\ isdigit(frac)))
       THEN Some(NoLeadingZeros(SubSeq(s, 1, whole)) \o <<".">>
                    \o NoTrailingZeros(frac))
       ELSE None

\* EntityExtractor._parse_money, entity_extractor.py:171-177
parse_money(money_str) ==
    float(strip(remove(remove(remove(money_str, "$"), ","), "%")))

\* EntityExtractor._extract_money, entity_extractor.py:146-169
extract_money(text) ==
    LET found == Matches(money_patterns, text) IN
    [k \in DOMAIN found |-> Entity(MONEY, found[k], parse_money(found[k]), 95)]

\* ^[A-Z]{3}-[A-Z]{2}-\d{4}$, entity_filters.py:27
SkuPattern ==
    <<Class(Range(UpperCase), 3, 3), Lit(<<<<"-">>>>, FALSE),
      Class(Range(UpperCase), 2, 2), Lit(<<<<"-">>>>, FALSE),
      Class(DigitSet, 4, 4)>>

\* mutant: the product-code shape is looked for in the text as it is written
should_keep_entity_AsWritten(text, entity_type) ==
    LET cleaned == strip(text)
        sku == Match(SkuPattern, 1, text, 1)
    IN /\ ~(Len(cleaned) <= 1)
       /\ ~("\n" \in Range(text) \/ "\r" \in Range(text))
       /\ ~isdigit(cleaned)
       /\ ~(sku # None /\ sku[1][Len(SkuPattern)] = Len(text) + 1)

\* EntityFilter.should_keep_entity, entity_filters.py:9-30
should_keep_entity(text, entity_type) ==
    LET cleaned == strip(text)
        sku == Match(SkuPattern, 1, upper(text), 1)
    IN /\ ~(Len(cleaned) <= 1)
       /\ ~("\n" \in Range(text) \/ "\r" \in Range(text))
       /\ ~isdigit(cleaned)
       /\ ~(sku # None /\ sku[1][Len(SkuPattern)] = Len(text) + 1)

\* mutant: the substring is looked for in the text as it is written
reclassify_entity_CaseSensitive(text, current_type) ==
    IF current_type = PERSON
          /\ Contains(text,
                      <<"g", "o", "v", "e", "r", "n", "o", "r", "a", "t", "e">>)
    THEN LOCATION ELSE current_type

\* EntityFilter.reclassify_entity, entity_filters.py:32-36
reclassify_entity(text, current_type) ==
    IF current_type = PERSON
          /\ Contains(lower(text),
                      <<"g", "o", "v", "e", "r", "n", "o", "r", "a", "t", "e">>)
    THEN LOCATION ELSE current_type

\* label_mapping.get(label), entity_extractor.py:190-199
label_mapping(label) ==
    CASE label = "PERSON" -> Some(PERSON)
      [] label = "ORG" -> Some(ORGANIZATION)
      [] label \in {"GPE", "LOC"} -> Some(LOCATION)
      [] OTHER -> None

RECURSIVE extract_spacy_entities(_, _)
\* EntityExtractor._extract_spacy_entities, entity_extractor.py:179-212, for
\* the spans ents the recognizer found (doc.ents)
extract_spacy_entities(ents, entity_types) ==
    IF ents = <<>> THEN <<>>
    ELSE LET ent == Head(ents)
             entity_type == label_mapping(ent.label)
         IN (IF /\ entity_type # None
                /\ entity_type[1] \in Range(entity_types)
                /\ should_keep_entity(ent.text, entity_type[1])
             THEN <<Entity(reclassify_entity(ent.text, entity_type[1]),
                           ent.text, Some(ent.text), 85)>>
             ELSE <<>>)
            \o extract_spacy_entities(Tail(ents), entity_types)

(* ------- EntityExtractor.extract_entities, entity_extractor.py:66-100 --- *)
\* number of phrases in a text explored
MaxPhrases == 1
\* number of spans the recognizer finds in a text
MaxSpans == 2
\* length of the candidate lists _deduplicate_entities is called with
MaxCands == 3

\* the phrases the texts explored are made of
FullDate ==
    <<"F", "e", "b", "r", "u", "a", "r", "y",
      " ", "1", "3", ",", " ", "2", "0", "2", "5">>
IsoDate == <<"2", "0", "2", "5", "-", "0", "2", "-", "1", "3">>
AbbrDate ==
    <<"F", "e", "b", " ", "1", "3",
      ",", " ", "2", "0", "2", "5">>
DayFirstDate == <<"1", "3", "/", "0", "2", "/", "2", "0", "2", "5">>
Amount == <<"$", "1", ",", "2", "3", "4", ".", "5", "6">>
Percentage == <<"1", ".", "5", "%">>
Governorate ==
    <<"M", "i", "n", "y", "a", " ", "G", "o",
      "v", "e", "r", "n", "o", "r", "a", "t", "e">>
GOVERNORATE ==
    <<"M", "I", "N", "Y", "A", " ", "G", "O",
      "V", "E", "R", "N", "O", "R", "A", "T", "E">>
Cairo == <<"C", "a", "i", "r", "o">>
UsDate == <<"0", "2", "/", "1", "3", "/", "2", "0", "2", "5">>
DashDate == <<"1", "3", "-", "0", "2", "-", "2", "0", "2", "5">>
BrokenDate == <<"F", "e", "b", "\n", "1", "3", " ", "2", "0", "2", "5">>
OneChar == <<"X">>
Digits == <<"4", "2">>
ProductCode == <<"a", "b", "c", "-", "d", "e", "-", "1", "2", "3", "4">>
Names == {Governorate, GOVERNORATE, Cairo, BrokenDate, OneChar, Digits, ProductCode}
Phrases == {FullDate, IsoDate, AbbrDate, DayFirstDate, UsDate, DashDate, Amount,
            Percentage} \cup Names

RECURSIVE Texts(_)
\* the texts of at most n phrases
Texts(n) ==
    IF n = 0 THEN {<<>>}
    ELSE Texts(n - 1) \cup Phrases
           \cup {t \o <<";", " ">> \o p : t \in Texts(n - 1) \ {<<>>}, p \in Phrases}
\* texts of white space only
BlankTexts == {<<" ">>, <<" ", "\n", "\t">>}

\* the entity_types arguments explored: None, an empty list, lists of types
TypeFilters ==
    {None, Some(<<>>), Some(<<DATE, MONEY>>), Some(<<PERSON>>),
     Some(<<LOCATION, ORGANIZATION>>)}

\* the labels of the recognizer explored; DATE is one label_mapping lacks
Labels == {"PERSON", "ORG", "GPE", "DATE"}

RECURSIVE SpanLists(_, _)
\* the sequences of at most n spans over the texts ts
SpanLists(ts, n) ==
    IF n = 0 THEN {<<>>}
    ELSE SpanLists(ts, n - 1)
           \cup {Append(q, [text |-> t, label |-> l]) :
                    q \in SpanLists(ts, n - 1), t \in ts, l \in Labels}

\* doc.ents of nlp(text), entity_extractor.py:187: what the recognizer finds
\* is not determined by the text; it finds names that occur in it
DocEnts(t) == SpanLists({n \in Names : Contains(t, n)}, MaxSpans)

\* the candidate entities _deduplicate_entities is called with directly
Candidates ==
    UNION {{Entity(k[1], k[2], v, c) : v \in {None, Some(k[2])}, c \in {85, 90}} :
              k \in {<<LOCATION, Cairo>>, <<PERSON, Cairo>>,
                     <<LOCATION, Governorate>>}}

RECURSIVE CandidateLists(_)
CandidateLists(n) ==
    IF n = 0 THEN {<<>>}
    ELSE CandidateLists(n - 1)
           \cup {Append(q, e) : q \in CandidateLists(n - 1), e \in Candidates}

\* types_to_extract, entity_extractor.py:77
types_to_extract(entity_types) ==
    IF entity_types # None /\ entity_types[1] # <<>> THEN entity_types[1]
    ELSE EntityType

\* spacy_types, entity_extractor.py:88-91
spacy_types(entity_types) ==
    SelectSeq(types_to_extract(entity_types),
              LAMBDA t : t \in {PERSON, ORGANIZATION, LOCATION})

\* mutant: only the empty text is returned for at once
Enter_ChecksEmptyOnly ==
    /\ epc = "call"
    /\ IF extText = <<>>
       THEN epc' = "done" /\ extResult' = Some(<<>>)
       ELSE epc' = "dates" /\ extResult' = extResult
    /\ UNCHANGED <<extText, extTypes, docEnts, extEntities, seen, cursor, invoked>>

\* entity_extractor.py:71-72
Enter ==
    /\ epc = "call"
    /\ IF extText = <<>> \/ strip(extText) = <<>>
       THEN epc' = "done" /\ extResult' = Some(<<>>)
       ELSE epc' = "dates" /\ extResult' = extResult
    /\ UNCHANGED <<extText, extTypes, docEnts, extEntities, seen, cursor, invoked>>

\* entity_extractor.py:80-81
DatePass ==
    /\ epc = "dates"
    /\ IF DATE \in Range(types_to_extract(extTypes))
       THEN /\ extEntities' = extEntities \o extract_dates(extText)
            /\ invoked' = invoked \cup {"dates"}
       ELSE UNCHANGED <<extEntities, invoked>>
    /\ epc' = "money"
    /\ UNCHANGED <<extText, extTypes, docEnts, seen, cursor, extResult>>

\* entity_extractor.py:84-85
MoneyPass ==
    /\ epc = "money"
    /\ IF MONEY \in Range(types_to_extract(extTypes))
       THEN /\ extEntities' = extEntities \o extract_money(extText)
            /\ invoked' = invoked \cup {"money"}
       ELSE UNCHANGED <<extEntities, invoked>>
    /\ epc' = "spacy"
    /\ UNCHANGED <<extText, extTypes, docEnts, seen, cursor, extResult>>

\* entity_extractor.py:88-97: the recognizer pass, then the call of
\* _deduplicate_entities
RecognizerPass ==
    /\ epc = "spacy"
    /\ IF spacy_types(extTypes) # <<>>
       THEN \E ents \in DocEnts(extText) :
              /\ docEnts' = Some(ents)
              /\ extEntities' = extEntities
                                \o extract_spacy_entities(ents, spacy_types(extTypes))
              /\ invoked' = invoked \cup {"recognizer"}
       ELSE UNCHANGED <<docEnts, extEntities, invoked>>
    /\ epc' = "dedup"
    /\ cursor' = 1
    /\ seen' = <<>>
    /\ UNCHANGED <<extText, extTypes, extResult>>

\* the position in the dict seen of the key of entity, or 0
KeyIndex(dict, entity) ==
    IF \E k \in DOMAIN dict :
          dict[k].type = entity.type /\ dict[k].text = entity.text
    THEN CHOOSE k \in DOMAIN dict :
          dict[k].type = entity.type /\ dict[k].text = entity.text
    ELSE 0

\* mutant: of two entities with one key and one confidence the later is kept
DedupStep_KeepsLast ==
    /\ epc = "dedup"
    /\ cursor <= Len(extEntities)
    /\ LET entity == extEntities[cursor]
           k == KeyIndex(seen, entity)
       IN seen' = IF k = 0 THEN Append(seen, entity)
                  ELSE IF entity.confidence >= seen[k].confidence
                       THEN [seen EXCEPT ![k] = entity]
                       ELSE seen
    /\ cursor' = cursor + 1
    /\ UNCHANGED <<extText, extTypes, epc, docEnts, extEntities, invoked, extResult>>

\* mutant: an entry of the dict is never replaced
Absorb_NeverReplaces(dict, entity) ==
    IF KeyIndex(dict, entity) = 0 THEN Append(dict, entity) ELSE dict

\* mutant: a new key is put in front of the dict
Absorb_PutsInFront(dict, entity) ==
    LET k == KeyIndex(dict, entity)
    IN IF k = 0 THEN <<entity>> \o dict
       ELSE IF entity.confidence > dict[k].confidence
            THEN [dict EXCEPT ![k] = entity]
            ELSE dict

\* the body of the loop of _deduplicate_entities, entity_extractor.py:
\* 218-221; the dict seen keeps its keys in the order of their insertion
Absorb(dict, entity) ==
    LET k == KeyIndex(dict, entity)
    IN IF k = 0 THEN Append(dict, entity)
       ELSE IF entity.confidence > dict[k].confidence
            THEN [dict EXCEPT ![k] = entity]
            ELSE dict

RECURSIVE deduplicate_entities(_)
\* EntityExtractor._deduplicate_entities, entity_extractor.py:214-223, as a
\* function of the list it is given
deduplicate_entities(cands) ==
    IF cands = <<>> THEN <<>>
    ELSE Absorb(deduplicate_entities(SubSeq(cands, 1, Len(cands) - 1)),
                cands[Len(cands)])

\* one iteration of the loop of _deduplicate_entities, entity_extractor.py:
\* 217-221
DedupStep ==
    /\ epc = "dedup"
    /\ cursor <= Len(extEntities)
    /\ seen' = Absorb(seen, extEntities[cursor])
    /\ cursor' = cursor + 1
    /\ UNCHANGED <<extText, extTypes, epc, docEnts, extEntities, invoked, extResult>>

\* entity_extractor.py:223 and 97-100: list(seen.values()) is returned
DedupReturn ==
    /\ epc = "dedup"
    /\ cursor > Len(extEntities)
    /\ extResult' = Some(seen)
    /\ epc' = "done"
    /\ UNCHANGED <<extText, extTypes, docEnts, extEntities, seen, cursor, invoked>>

\* the application as constructed, main.py: no job, no task, no thread
Constructed ==
    /\ jobs = <<>>
    /\ nextId = 0
    /\ runs = <<>>
    /\ now = 0
    /\ lastOp = Op("init", 0, NoResult)
    /\ statusLog = <<>>
    /\ calls = <<>>
    /\ lock = 0
    /\ objOf = <<>>
    /\ heap = <<>>

\* a call extract_entities(text, entity_types) has been made
EntInit ==
    /\ Constructed
    /\ LenIdle
    /\ extText \in Texts(MaxPhrases) \cup BlankTexts
    /\ extTypes \in TypeFilters
    /\ epc = "call"
    /\ docEnts = None
    /\ extEntities = <<>>
    /\ seen = <<>>
    /\ cursor = 0
    /\ invoked = {}
    /\ extResult = None

EntNext ==
    \/ Enter /\ UNCHANGED <<appvars, regvars, lenvars>>
    \/ DatePass /\ UNCHANGED <<appvars, regvars, lenvars>>
    \/ MoneyPass /\ UNCHANGED <<appvars, regvars, lenvars>>
    \/ RecognizerPass /\ UNCHANGED <<appvars, regvars, lenvars>>
    \/ DedupStep /\ UNCHANGED <<appvars, regvars, lenvars>>
    \/ DedupReturn /\ UNCHANGED <<appvars, regvars, lenvars>>

\* one call of extract_entities
EntitySpec == EntInit /\ [][EntNext]_vars

\* a call _deduplicate_entities(entities) has been made
DedupInit ==
    /\ Constructed
    /\ LenIdle
    /\ extText = <<>>
    /\ extTypes = None
    /\ epc = "dedup"
    /\ docEnts = None
    /\ extEntities \in CandidateLists(MaxCands)
    /\ seen = <<>>
    /\ cursor = 1
    /\ invoked = {}
    /\ extResult = None

DedupNext ==
    \/ DedupStep /\ UNCHANGED <<appvars, regvars, lenvars>>
    \/ DedupReturn /\ UNCHANGED <<appvars, regvars, lenvars>>

\* one call of _deduplicate_entities
DedupSpec == DedupInit /\ [][DedupNext]_vars

(* --- HuggingFaceService._get_length_params, llm_service.py:201-225 ------ *)
\* the largest max_length a call is made with
MaxLength == 201

\* SummaryMode, schemas.py:6-10
SummaryModes == {"brief", "detailed", "bullets"}

\* the default (min_len, max_len) of a mode, llm_service.py:210-217
DefaultLengths(mode) ==
    CASE mode = "brief" -> <<30, 60>>
      [] mode = "detailed" -> <<100, 200>>
      [] mode = "bullets" -> <<50, 100>>
      [] OTHER -> <<50, 100>>

\* min(a, b)
Min(a, b) == IF a <= b THEN a ELSE b

\* _get_length_params without the cap of llm_service.py:222
get_length_params_NoCap(mode, max_length) ==
    LET min_len == DefaultLengths(mode)[1]
        max_len == DefaultLengths(mode)[2]
    IN IF max_length # None /\ max_length[1] # 0
       THEN <<Min(min_len, max_length[1] \div 2), max_length[1]>>
       ELSE <<min_len, max_len>>

\* HuggingFaceService._get_length_params, llm_service.py:201-225; the
\* argument text_length is not used.  `if max_length:` is false for None and 0
get_length_params(mode, max_length) ==
    LET min_len == DefaultLengths(mode)[1]
        max_len == DefaultLengths(mode)[2]
    IN IF max_length # None /\ max_length[1] # 0
       THEN <<Min(min_len, Min(max_length[1], 200) \div 2),
              Min(max_length[1], 200)>>
       ELSE <<min_len, max_len>>

\* the call returns
GetLengthParams ==
    /\ hfLengths = None
    /\ hfLengths' = Some(get_length_params(hfMode, hfMaxLength))
    /\ UNCHANGED <<hfMode, hfMaxLength>>

\* a call _get_length_params(mode, max_length, text_length) has been made
LenInit ==
    /\ Constructed
    /\ ExtIdle
    /\ hfMode \in SummaryModes
    /\ hfMaxLength \in {None} \cup {Some(n) : n \in 0..MaxLength}
    /\ hfLengths = None

LenNext == GetLengthParams /\ UNCHANGED <<appvars, regvars, extvars>>

\* one call of _get_length_params
LengthSpec == LenInit /\ [][LenNext]_vars

(* ------------------------------ claims --------------------------------- *)
\* run r has just returned
Ended(r) == runs[r].pc # "done" /\ runs'[r].pc = "done"
\* run r has just returned through the except clause
Failing(r) ==
    Ended(r) /\ lastOp'.op = "pipeline" /\ lastOp'.id = r
             /\ lastOp'.result.raised # None
\* the step taken is a process_pdf request for job id
Requested(id) == lastOp'.op = "process_pdf" /\ lastOp'.id = id
\* in this state a run has just returned through the except clause, for a
\* failure of stage, and its job is Failed
JustFailed(stage) ==
    /\ lastOp.op = "pipeline"
    /\ lastOp.result.raised # None
    /\ lastOp.result.stage = Some(stage)
    /\ runs[lastOp.id].pc = "done"
    /\ \E id \in DOMAIN jobs : jobs[id].status = FAILED

\* C1: once a job's status is Completed, no step changes it while the record
\* exists.
C1_CompletedIsTerminal ==
    [][\A id \in DOMAIN jobs :
          (jobs[id].status = COMPLETED /\ id \in DOMAIN jobs')
              => jobs'[id].status = COMPLETED]_vars

\* a completed job has just received a further processing request
C1_Witness ==
    /\ lastOp.op = "process_pdf"
    /\ lastOp.id \in DOMAIN jobs
    /\ jobs[lastOp.id].status = COMPLETED

\* C2 as stated: once a job's status is Failed, no step changes it.
C2_FailedIsTerminal ==
    [][\A id \in DOMAIN jobs :
          (jobs[id].status = FAILED /\ id \in DOMAIN jobs')
              => jobs'[id].status = FAILED]_vars

\* C2 amended: the only step that changes the status of a Failed job is a
\* processing request for that job, which is accepted and moves the job to
\* Processing; no pipeline step, status query or other request changes it.
C2_FailedLeftOnlyByRequest ==
    [][\A id \in DOMAIN jobs :
          (jobs[id].status = FAILED /\ id \in DOMAIN jobs'
             /\ jobs'[id].status # FAILED)
              => (Requested(id) /\ jobs'[id].status = PROCESSING
                  /\ lastOp'.result.status = "processing")]_vars

\* a job that failed has been started again
C2_Witness ==
    \E id \in DOMAIN jobs :
        /\ Len(statusLog[id]) >= 4
        /\ statusLog[id][3] = FAILED
        /\ statusLog[id][4] = PROCESSING

\* C3: a processing request for a job in Processing is answered with the
\* error 400, dispatches no task and changes no field of any record.
C3_ProcessingIsRejected ==
    [][\A id \in DOMAIN jobs :
          (Requested(id) /\ jobs[id].status = PROCESSING)
              => (lastOp'.result.code = 400 /\ jobs' = jobs /\ runs' = runs)]_vars

\* a request was rejected for a job in Processing after time has passed
\* since the job's last update
C3_Witness ==
    /\ lastOp.op = "process_pdf"
    /\ lastOp.result.code = 400
    /\ lastOp.id \in DOMAIN jobs
    /\ jobs[lastOp.id].status = PROCESSING
    /\ jobs[lastOp.id].updated_at < now

\* C4: a processing request for a Completed job returns the stored summary,
\* entities, metadata and processing time, dispatches no task and changes
\* no field of any record.
C4_CompletedIsCached ==
    [][\A id \in DOMAIN jobs :
          (Requested(id) /\ jobs[id].status = COMPLETED)
              => /\ jobs' = jobs
                 /\ runs' = runs
                 /\ lastOp'.result.code = 200
                 /\ lastOp'.result.status = "completed"
                 /\ lastOp'.result.summary = jobs[id].summary
                 /\ lastOp'.result.entities = jobs[id].entities
                 /\ lastOp'.result.metadata = jobs[id].metadata
                 /\ lastOp'.result.processing_time_seconds
                        = jobs[id].processing_time]_vars

\* a completed job with a stored summary was requested again after time has
\* passed since its last update
C4_Witness ==
    /\ lastOp.op = "process_pdf"
    /\ lastOp.result.code = 200
    /\ lastOp.result.status = "completed"
    /\ lastOp.id \in DOMAIN jobs
    /\ jobs[lastOp.id].summary # None
    /\ jobs[lastOp.id].updated_at < now

\* s is an initial part of t
IsPrefix(s, t) == Len(s) <= Len(t) /\ \A i \in 1..Len(s) : s[i] = t[i]

\* C5: a job no stage of which has failed goes through the statuses Pending,
\* Processing, Completed in this order and through no other, and once it is
\* Completed its progress is 100 and it has no error message.
C5_SuccessfulLifecycle ==
    \A id \in DOMAIN jobs :
        (\A i \in 1..Len(statusLog[id]) : statusLog[id][i] # FAILED)
            => /\ IsPrefix(statusLog[id], <<PENDING, PROCESSING, COMPLETED>>)
               /\ statusLog[id][Len(statusLog[id])] = jobs[id].status
               /\ jobs[id].status = COMPLETED
                    => /\ jobs[id].progress = 100
                       /\ jobs[id].error_message = None

\* the only run of a job has gone through the three stages and returned
C5_Witness ==
    \E id \in DOMAIN jobs :
        /\ statusLog[id] = <<PENDING, PROCESSING, COMPLETED>>
        /\ jobs[id].entities # <<>>
        /\ jobs[id].summary # None
        /\ \A r \in Runs : runs[r].pc = "done"

\* C6: every dispatched run returns, and the step by which it returns leaves
\* its job, if the record exists, in Completed or Failed.  (A run stays
\* dispatched and stays returned, so that it returns is: again and again, it
\* is not dispatched or has returned.)
C6_RunsEndInTerminalState ==
    /\ \A r \in 1..MaxRuns : []<>(r \in Runs => runs[r].pc = "done")
    /\ [][\A r \in Runs :
            (Ended(r) /\ runs[r].job_id \in DOMAIN jobs')
                => jobs'[runs[r].job_id].status \in {COMPLETED, FAILED}]_vars

\* a run has returned through the except clause, for a failure of the
\* summarization stage, and left its job Failed
C6_Witness == JustFailed("summarization")

\* C7: a job whose status is Failed has a non-empty error message.
C7_FailedHasErrorMessage ==
    \A id \in DOMAIN jobs :
        jobs[id].status = FAILED => Truthy(jobs[id].error_message)

\* C8: a job whose status is Completed has no error message.
C8_CompletedHasNoErrorMessage ==
    \A id \in DOMAIN jobs :
        jobs[id].status = COMPLETED => jobs[id].error_message = None

\* C9: when a run returns through the except clause for a failure with
\* message m, the error message of its job is m.
C9_ErrorMessageVerbatim ==
    [][\A r \in Runs :
          (Failing(r) /\ runs[r].job_id \in DOMAIN jobs')
              => jobs'[runs[r].job_id].error_message = lastOp'.result.raised]_vars

\* the stage a run calls at each position
StageAt(pc) ==
    CASE pc = "extract" -> Some("extraction")
      [] pc = "entities" -> Some("entities")
      [] pc = "summarize" -> Some("summarization")
      [] OTHER -> None

\* C10: the step in which a stage call of a run fails calls no other stage,
\* sets the job Failed and leaves its progress at the last checkpoint the run
\* wrote, and the run returns; a run that has returned takes no step.
C10_FailureStopsTheRun ==
    [][\A r \in Runs :
          /\ (lastOp'.op = "pipeline" /\ lastOp'.id = r
                /\ lastOp'.result.raised # None)
                => /\ Ended(r)
                   /\ lastOp'.result.stage = StageAt(runs[r].pc)
                   /\ runs[r].job_id \in DOMAIN jobs'
                        => /\ jobs'[runs[r].job_id].status = FAILED
                           /\ jobs'[runs[r].job_id].progress
                                = jobs[runs[r].job_id].progress
                           /\ Some(jobs'[runs[r].job_id].progress)
                                = runs[r].checkpoint
          /\ runs[r].pc = "done"
                => (runs'[r] = runs[r] /\ ~(lastOp'.op = "pipeline" /\ lastOp'.id = r))]_vars

\* a run failed in the entity stage and its job stays at checkpoint 30
C10_Witness ==
    /\ JustFailed("entities")
    /\ \E id \in DOMAIN jobs : jobs[id].status = FAILED /\ jobs[id].progress = 30

\* the step taken is a step of run r
PipelineStep(r) == lastOp'.op = "pipeline" /\ lastOp'.id = r

\* C11: the progress of every job is an integer in 0..100, and a step from a
\* state in which a job is Processing to a state in which it is Processing
\* does not decrease its progress.
C11_ProgressBoundedAndMonotonic ==
    /\ [](\A id \in DOMAIN jobs : jobs[id].progress \in 0..100)
    /\ [][\A id \in DOMAIN jobs :
            (jobs[id].status = PROCESSING /\ id \in DOMAIN jobs'
               /\ jobs'[id].status = PROCESSING)
                => jobs'[id].progress >= jobs[id].progress]_vars

\* a job in Processing has gone from the entity stage to checkpoint 50
C11_Witness ==
    /\ lastOp.op = "pipeline"
    /\ lastOp.result = Step(Some("entities"), None)
    /\ \E id \in DOMAIN jobs :
          jobs[id].status = PROCESSING /\ jobs[id].progress = 50

\* the checkpoint that follows checkpoint p in a run
NextCheckpoint(run, p) ==
    CASE p = 5 -> 10
      [] p = 10 -> IF run.extract_entities THEN 30 ELSE 50
      [] p = 30 -> 50
      [] p = 50 -> 90
      [] p = 90 -> 100
      [] OTHER -> 0

\* C12: an accepted request writes progress 5 together with Processing before
\* its run takes a step; every later change of the job's progress is made by
\* a step of that run and leads from one checkpoint to the next of 5, 10, 30
\* (only when entities are requested), 50, 90, 100; and the run writes 100
\* exactly when it writes Completed.
C12_CheckpointOrder ==
    [][/\ \A id \in DOMAIN jobs :
            (Requested(id) /\ Len(runs') > Len(runs))
                => /\ jobs'[id].progress = 5
                   /\ jobs'[id].status = PROCESSING
                   /\ runs'[Len(runs')].job_id = id
                   /\ runs'[Len(runs')].pc = "start"
                   /\ runs'[Len(runs')].checkpoint = None
       /\ \A id \in DOMAIN jobs \cap DOMAIN jobs' :
            (jobs'[id].progress # jobs[id].progress /\ ~Requested(id))
                => \E r \in Runs :
                      /\ PipelineStep(r)
                      /\ runs[r].job_id = id
                      /\ jobs'[id].progress
                           = NextCheckpoint(runs[r], jobs[id].progress)
       /\ \A r \in Runs :
            (PipelineStep(r) /\ runs[r].job_id \in DOMAIN jobs'
               /\ runs[r].pc # "start")
                => (jobs'[runs[r].job_id].progress = 100
                      <=> jobs'[runs[r].job_id].status = COMPLETED)]_vars

\* a run with entity extraction has written its last checkpoint: the job is
\* Completed at 100 with the entities stored
C12_Witness ==
    /\ lastOp.op = "pipeline"
    /\ \E id \in DOMAIN jobs :
          /\ jobs[id].status = COMPLETED
          /\ jobs[id].progress = 100
          /\ jobs[id].extract_entities
          /\ jobs[id].entities # <<>>

(* ---------------- claims about the JobManager under threads ------------- *)
\* call c returns in the step taken
Returns(c) == ~calls[c].done /\ calls'[c].done
\* the step taken is the first step of a call
Starts == Len(calls') = Len(calls) + 1

\* C13: when an update_job_status call leaves its critical section, the stored
\* record is the record as it was when the call entered it with all of the
\* call's arguments applied and nothing else changed, so that concurrent
\* calls take effect one after another in the order in which they took the
\* lock; and no step moves a job's updated_at backwards.
C13_UpdatesAreAtomic ==
    [][/\ \A c \in Calls :
            (calls[c].kind = "update_job_status" /\ Returns(c)
               /\ IdOf(calls[c].ref) # {})
                => LET id == CHOOSE i \in IdOf(calls[c].ref) : TRUE
                       before == calls[c].before[1]
                       arg == calls[c].arg
                   IN /\ jobs'[id].updated_at >= before.updated_at
                      /\ jobs'[id] = update_status(before, arg.status,
                                        arg.progress, arg.message,
                                        arg.error_message, jobs'[id].updated_at)
       /\ \A id \in DOMAIN jobs \cap DOMAIN jobs' :
            jobs'[id].updated_at >= jobs[id].updated_at]_vars

\* two update_job_status calls with different arguments are in progress on
\* the same job, one inside its critical section and one waiting for it
C13_Witness ==
    \E c, d \in Calls :
        /\ calls[c].kind = "update_job_status"
        /\ calls[d].kind = "update_job_status"
        /\ ~calls[c].done /\ ~calls[d].done
        /\ calls[c].ref = calls[d].ref
        /\ calls[c].arg # calls[d].arg
        /\ lock = c
        /\ calls[c].pc >= 3
        /\ calls[d].pc = 1

\* C14: the view a get_job_status call returns is the view of the record as
\* it was at some moment, between the call's lookup and its return, at which
\* no writer was inside its critical section.
C14_ViewIsNotTorn ==
    [][\A c \in Calls :
          (calls[c].kind = "get_job_status" /\ Returns(c))
              => lastOp'.result.view[1]
                    \in {to_status_response(r, TRUE) : r \in calls[c].clean}]_vars

\* C15: an assignment by a caller to a field of the record get_job returned
\* leaves the registry unchanged.
C15_GetJobIsDefensive ==
    [][lastOp'.op = "assign" => jobs' = jobs]_vars

\* C16: the first step of update_job_status, set_job_processing_config,
\* set_job_results, delete_job, get_job_status or get_job called with an
\* identifier that is not stored is its only step: the call returns, the
\* registry is unchanged, delete_job returns false and get_job and
\* get_job_status return None.
C16_AbsentIdIsNoOp ==
    [][(/\ Starts
        /\ lastOp'.op \in Writers \cup {"delete_job", "get_job_status", "get_job"}
        /\ lastOp'.id \notin DOMAIN jobs)
          => /\ jobs' = jobs
             /\ objOf' = objOf
             /\ heap' = heap
             /\ calls'[Len(calls')].done
             /\ lastOp'.op = "delete_job" => lastOp'.result = [existed |-> FALSE]
             /\ lastOp'.op = "get_job_status" => lastOp'.result = [view |-> None]
             /\ lastOp'.op = "get_job" => lastOp'.result = [job |-> 0]
             /\ lastOp'.op \in Writers => lastOp'.result = NoResult]_vars

\* set_job_results has been called for a job that another call has deleted
C16_Witness ==
    /\ lastOp = Op("set_job_results", 1, NoResult)
    /\ 1 \notin DOMAIN jobs
    /\ \E c \in Calls : calls[c].kind = "delete_job" /\ calls[c].id = 1

\* C17: delete_job(id) returns true exactly when id is stored when it takes
\* the lock, leaves id absent and every other record as it was; and two
\* calls that returned true for the same id removed two different records.
C17_DeleteIsRemoveIfPresent ==
    /\ [][(Starts /\ lastOp'.op = "delete_job")
            => /\ lastOp'.result.existed = (lastOp'.id \in DOMAIN jobs)
               /\ DOMAIN jobs' = DOMAIN jobs \ {lastOp'.id}
               /\ \A i \in DOMAIN jobs' : jobs'[i] = jobs[i]]_vars
    /\ [](\A c, d \in Calls :
            (/\ c # d
             /\ calls[c].kind = "delete_job" /\ calls[d].kind = "delete_job"
             /\ calls[c].id = calls[d].id
             /\ calls[c].result.existed /\ calls[d].result.existed)
                => calls[c].ref # calls[d].ref)

\* of two delete_job calls for the same id, one returned true and the other
\* false, and the other job is still stored
C17_Witness ==
    /\ \E c, d \in Calls :
          /\ calls[c].kind = "delete_job" /\ calls[d].kind = "delete_job"
          /\ calls[c].id = 1 /\ calls[d].id = 1
          /\ calls[c].result.existed /\ ~calls[d].result.existed
    /\ DOMAIN jobs = {2}

\* the create_job calls that have returned
Created == {c \in Calls : calls[c].kind = "create_job" /\ calls[c].done}

\* C18: create_job returns an identifier that is not stored and that no other
\* create_job call has returned, stores under it a record that is Pending
\* with progress 0 and no error message, and changes no stored record.
C18_CreateIsFresh ==
    [][\A c \in Calls :
          (calls[c].kind = "create_job" /\ Returns(c))
              => LET id == lastOp'.result.job_id IN
                 /\ id \notin DOMAIN jobs
                 /\ \A d \in Created : calls[d].id # id
                 /\ id \in DOMAIN jobs'
                 /\ jobs'[id].status = PENDING
                 /\ jobs'[id].progress = 0
                 /\ jobs'[id].error_message = None
                 /\ \A i \in DOMAIN jobs : jobs'[i] = jobs[i]]_vars

\* C19: the statistics get_stats returns are those of the registry at the
\* moment it returns, which is the registry as it was during the whole call:
\* the total is the number of records, each count is the number of records
\* with that status, and the counts add up to the total.
C19_StatsAreASnapshot ==
    [][lastOp'.op = "get_stats"
          => /\ jobs' = jobs
             /\ lastOp'.result.total_jobs = Cardinality(DOMAIN jobs)
             /\ \A s \in JobState :
                  lastOp'.result.by_status[s]
                      = Cardinality({id \in DOMAIN jobs : jobs[id].status = s})
             /\ lastOp'.result.by_status[PENDING]
                  + lastOp'.result.by_status[PROCESSING]
                  + lastOp'.result.by_status[COMPLETED]
                  + lastOp'.result.by_status[FAILED]
                    = lastOp'.result.total_jobs]_vars

\* get_stats has counted a processing job and a pending one while a call
\* that will write to one of them waits for the lock
C19_Witness ==
    /\ lastOp.op = "get_stats"
    /\ lastOp.result.total_jobs = 2
    /\ lastOp.result.by_status[PROCESSING] = 1
    /\ lastOp.result.by_status[PENDING] = 1
    /\ \E c \in Calls : calls[c].kind \in Writers /\ ~calls[c].done

\* the delete_job calls made
Deletes == {c \in Calls : calls[c].kind = "delete_job"}

\* C20: an assignment made by update_job_status, set_job_processing_config
\* or set_job_results for one job changes no record of another job, and as
\* long as no delete_job call is made the registry holds as many records as
\* create_job calls have stored one.
C20_DistinctJobsDoNotInterfere ==
    /\ [][\A c \in Calls :
            (calls[c].kind \in Writers /\ ~calls[c].done /\ calls'[c] # calls[c])
                => \A i \in (DOMAIN jobs \cap DOMAIN jobs') \ IdOf(calls[c].ref) :
                      jobs'[i] = jobs[i]]_vars
    /\ [](Deletes = {} => Cardinality(DOMAIN jobs) = nextId)

(* ---------------- claims about timestamps and the pipeline -------------- *)
\* C21: no step changes the created_at of a stored job, and every step that
\* changes the record of a job leaves its updated_at at the time of the step.
C21_TimestampsFollowMutations ==
    [][\A id \in DOMAIN jobs \cap DOMAIN jobs' :
          /\ jobs'[id].created_at = jobs[id].created_at
          /\ jobs'[id] # jobs[id] => jobs'[id].updated_at = now']_vars

\* the message of the exception EntityExtractor() raises when the recognizer
\* data cannot be loaded, entity_extractor.py:27-30
EngineUnavailable == "spacy model not found."

C27_TextStoredWhenExtracted ==
    [][\A r \in Runs :
          (/\ Failing(r)
           /\ lastOp'.result.stage \in {Some("entities"), Some("summarization")}
           /\ runs[r].job_id \in DOMAIN jobs')
              => jobs'[runs[r].job_id].extracted_text # None]_vars

\* C28: a job that is Completed has its summary, extracted text, metadata and
\* processing time set, and the entity count of its metadata is the length of
\* its entity list; in the step that makes it Completed these are the values
\* the completing run computed.
C28_ResultsStoredBeforeCompleted ==
    /\ [](\A id \in DOMAIN jobs :
            jobs[id].status = COMPLETED
                => /\ jobs[id].summary # None
                   /\ jobs[id].extracted_text # None
                   /\ jobs[id].metadata # <<>>
                   /\ jobs[id].processing_time # None
                   /\ jobs[id].metadata[1].entity_count = Len(jobs[id].entities))
    /\ [][\A r \in Runs :
            (/\ PipelineStep(r)
             /\ runs[r].job_id \in DOMAIN jobs'
             /\ jobs[runs[r].job_id].status # COMPLETED
             /\ jobs'[runs[r].job_id].status = COMPLETED)
                => LET job == jobs'[runs[r].job_id] IN
                   /\ job.summary = runs[r].summary
                   /\ job.extracted_text = Some(runs[r].pdf_result[1].text)
                   /\ job.entities = runs[r].entities
                   /\ job.metadata = Some(Metadata(runs[r]))
                   /\ job.processing_time[1] \in 0..(now - runs[r].start_time)]_vars

\* a run that extracted entities has completed its job after time has passed
\* since it started
C28_Witness ==
    /\ lastOp.op = "pipeline"
    /\ \E id \in DOMAIN jobs :
          /\ jobs[id].status = COMPLETED
          /\ jobs[id].entities # <<>>
          /\ jobs[id].processing_time = Some(1)

\* C29: a run of a request with entity extraction switched off never calls
\* the entity stage and never writes progress 30, and the job it completes
\* has an empty entity list and entity count 0.
C29_NoEntityStageWhenSwitchedOff ==
    [][\A r \in Runs :
          (PipelineStep(r) /\ ~runs[r].extract_entities)
              => /\ runs'[r].pc # "entities"
                 /\ runs'[r].checkpoint # Some(30)
                 /\ lastOp'.result.stage # Some("entities")
                 /\ runs[r].job_id \in DOMAIN jobs'
                      => LET job == jobs'[runs[r].job_id] IN
                         /\ job.progress # 30
                         /\ job.status = COMPLETED
                              => /\ job.entities = <<>>
                                 /\ job.metadata[1].entity_count = 0]_vars

\* a run of a request with entity extraction switched off has completed its
\* job
C29_Witness ==
    /\ lastOp.op = "pipeline"
    /\ \E id \in DOMAIN jobs :
          /\ jobs[id].status = COMPLETED
          /\ ~jobs[id].extract_entities
          /\ jobs[id].entities = <<>>
          /\ statusLog[id] = <<PENDING, PROCESSING, COMPLETED>>

\* C30: get_job_status returns None for an id that is not stored and a view
\* of the stored job otherwise; the view of a job has a result exactly when
\* include_result is true and the job is Completed.
C30_ResultOnlyWhenCompleted ==
    /\ [](\A id \in DOMAIN jobs, b \in BOOLEAN :
            (to_status_response(jobs[id], b).result # None)
                <=> (b /\ jobs[id].status = COMPLETED))
    /\ [][lastOp'.op = "get_job_status"
            => IF lastOp'.id \in DOMAIN jobs
               THEN \E b \in BOOLEAN :
                      lastOp'.result.view = Some(to_status_response(jobs[lastOp'.id], b))
               ELSE lastOp'.result.view = None]_vars

\* the status of a Completed job was asked for without its result
C30_Witness ==
    /\ lastOp.op = "get_job_status"
    /\ lastOp.result.view # None
    /\ lastOp.result.view[1].status = COMPLETED
    /\ lastOp.result.view[1].result = None

(* ---------------------- claims about extraction ------------------------ *)
\* the pair entities are deduplicated on
Key(entity) == <<entity.type, entity.text>>

\* among the candidates with the key of candidate i, the first of those with
\* the highest confidence
Survivor(cands, i) ==
    LET same == {j \in DOMAIN cands : Key(cands[j]) = Key(cands[i])}
        best == {j \in same : \A k \in same :
                                cands[k].confidence <= cands[j].confidence}
    IN cands[CHOOSE j \in best : \A k \in best : j <= k]

\* C22: whatever the candidate list, the deduplicated result holds no two
\* entities with one (type, text) pair, holds exactly one entity for every pair
\* among the candidates and none for any other pair, and that entity is the
\* first candidate among those of its pair with the highest confidence.
C22_DedupKeepsFirstHighest ==
    epc = "done" =>
        LET out == extResult[1]
        IN /\ \A a, b \in DOMAIN out : Key(out[a]) = Key(out[b]) => a = b
           /\ \A i \in DOMAIN extEntities :
                 /\ Cardinality({a \in DOMAIN out :
                                    Key(out[a]) = Key(extEntities[i])}) = 1
                 /\ \E a \in DOMAIN out : out[a] = Survivor(extEntities, i)
           /\ \A a \in DOMAIN out :
                 \E i \in DOMAIN extEntities : Key(out[a]) = Key(extEntities[i])

\* a list of three candidates was deduplicated in which two different
\* candidates of one pair tie on the highest confidence, and the earlier one
\* was returned
C22_Witness ==
    /\ epc = "done"
    /\ Len(extEntities) = 3
    /\ \E i, j \in DOMAIN extEntities :
          /\ i < j
          /\ Key(extEntities[i]) = Key(extEntities[j])
          /\ extEntities[i].confidence = extEntities[j].confidence
          /\ extEntities[i] # extEntities[j]
          /\ extEntities[i] = Survivor(extEntities, i)
          /\ \E k \in DOMAIN extEntities :
                /\ Key(extEntities[k]) = Key(extEntities[i])
                /\ extEntities[k].confidence < extEntities[i].confidence
          /\ \E a \in DOMAIN extResult[1] : extResult[1][a] = extEntities[i]

\* the text is empty or made of white space only
Blank(s) == \A i \in DOMAIN s : s[i] \in Whitespace

\* C23: a call of extract_entities with an empty or whitespace-only text, with
\* whatever types requested, runs neither a pattern pass nor the recognizer,
\* and returns the empty list.
C23_BlankTextYieldsNothing ==
    Blank(extText) =>
        /\ epc \in {"call", "done"}
        /\ invoked = {}
        /\ docEnts = None
        /\ epc = "done" => extResult = Some(<<>>)

\* a call with a text of a blank, a newline and a tab, and with a list of
\* requested types, has returned the empty list
C23_Witness ==
    /\ epc = "done"
    /\ extText = <<" ", "\n", "\t">>
    /\ extTypes = Some(<<DATE, MONEY>>)
    /\ invoked = {}
    /\ extResult = Some(<<>>)

\* the type t is among those the call extracts
Extracts(t) == t \in Range(types_to_extract(extTypes))

\* span is labelled person by the recognizer and has "governorate" in its
\* text, in whatever letter case
GovernoratePerson(span) ==
    /\ span.label = "PERSON"
    /\ \E i \in 0..(Len(span.text) - 11) :
          \A k \in 1..11 :
              LowerChar(span.text[i + k])
                  = <<"g", "o", "v", "e", "r", "n", "o", "r", "a", "t", "e">>[k]

\* the entities returned with the given type and text
Emitted(type, t) ==
    {a \in DOMAIN extResult[1] :
        extResult[1][a].type = type /\ extResult[1][a].text = t}

\* C24: when extract_entities has returned, no span the recognizer labelled
\* person whose text has "governorate" in it, in any letter case, is returned
\* as a person; it is returned as a location whenever spans labelled person
\* were asked for; and the result holds one location of its text at most,
\* also when the recognizer labelled another span of the same text a location.
C24_GovernorateIsALocation ==
    (epc = "done" /\ docEnts # None) =>
        \A i \in DOMAIN docEnts[1] :
            LET span == docEnts[1][i]
            IN GovernoratePerson(span) =>
                  /\ Emitted(PERSON, span.text) = {}
                  /\ Cardinality(Emitted(LOCATION, span.text)) <= 1
                  /\ Extracts(PERSON) => Emitted(LOCATION, span.text) # {}

\* with all types requested the recognizer labelled "Minya Governorate" once
\* a person and once a place, and one location entity of that text, and
\* nothing else, was returned
C24_Witness ==
    /\ epc = "done"
    /\ extTypes = None
    /\ docEnts = Some(<<[text |-> Governorate, label |-> "PERSON"],
                        [text |-> Governorate, label |-> "GPE"]>>)
    /\ Len(extResult[1]) = 1
    /\ Cardinality(Emitted(LOCATION, Governorate)) = 1

\* the normalized value the two date texts are to have
Normalized == <<"2", "0", "2", "5", "-", "0", "2", "-", "1", "3">>

\* C25: when extract_entities has returned from a call that extracts dates,
\* each of the date texts "February 13, 2025" and "2025-02-13" that the text
\* contains is returned as a date entity of value "2025-02-13".
C25_BothDatesNormalize ==
    (epc = "done" /\ Extracts(DATE)) =>
        \A d \in {FullDate, IsoDate} :
            Contains(extText, d) =>
                \E a \in Emitted(DATE, d) : extResult[1][a].value = Some(Normalized)

(* ------------------- further claims about extraction -------------------- *)
\* C35: when extract_entities has returned from a call with a non-empty list
\* of requested types, every entity returned has one of the requested types.
C35_OnlyRequestedTypes ==
    (epc = "done" /\ extTypes # None /\ extTypes[1] # <<>>) =>
        \A a \in DOMAIN extResult[1] :
            extResult[1][a].type \in Range(extTypes[1])

\* the date texts explored, each with the number of the layout of _parse_date
\* that parses it once its commas are removed, 0 when none does:
\* 1 abbreviated month name, 2 full month name, 3 MM/DD/YYYY, 4 DD-MM-YYYY,
\* 5 ISO.  All of them name the 13th of February 2025.
LayoutOf ==
    (AbbrDate :> 1) @@ (BrokenDate :> 1) @@ (UsDate :> 3) @@ (DashDate :> 4)
        @@ (IsoDate :> 5) @@ (DayFirstDate :> 0) @@ (FullDate :> 0)

\* the layouts that parse date_str, by number
Parsing(date_str) ==
    {k \in DOMAIN formats : strptime(remove(date_str, ","), formats[k]) # None}

\* C31: in a call of extract_entities that extracts dates, the date pass
\* yields date entities of confidence 0.90, one for every date text the
\* patterns match, whose value is the YYYY-MM-DD date given by the first of the
\* layouts, in their order, that parses the text, and is absent when no
\* layout parses it; and each is returned so when the call returns.
C31_DatesEmittedWithOrWithoutValue ==
    /\ (epc = "money" /\ Extracts(DATE)) =>
          /\ \A d \in DOMAIN LayoutOf :
                Contains(extText, d) =>
                    /\ \E k \in DOMAIN extEntities : extEntities[k].text = d
                    /\ Parsing(d) \subseteq {LayoutOf[d]}
          /\ \A k \in DOMAIN extEntities :
                LET entity == extEntities[k]
                    parsing == Parsing(entity.text)
                    first == CHOOSE n \in parsing : \A j \in parsing : n <= j
                IN /\ entity.type = DATE
                   /\ entity.confidence = 90
                   /\ entity.value
                         = IF parsing = {} THEN None
                           ELSE Some(strftime(strptime(remove(entity.text, ","),
                                                       formats[first])[1]))
    /\ (epc = "done" /\ Extracts(DATE)) =>
          \A d \in DOMAIN LayoutOf :
              Contains(extText, d) =>
                  \E a \in Emitted(DATE, d) :
                      /\ extResult[1][a].confidence = 90
                      /\ extResult[1][a].value
                            = IF LayoutOf[d] = 0 THEN None ELSE Some(Normalized)

\* a call on "13/02/2025", which the second date pattern matches and no
\* layout parses, has returned a date entity of confidence 0.90 without a
\* value
C31_Witness ==
    /\ epc = "done"
    /\ extText = DayFirstDate
    /\ extResult = Some(<<Entity(DATE, DayFirstDate, None, 90)>>)

\* the positions of t that hold no white space
Inked(t) == {i \in DOMAIN t : t[i] \notin Whitespace}

\* one of the four rejection rules applies to the text t: at most one
\* character once trimmed; a line break; digits only once trimmed; the shape
\* three letters, hyphen, two letters, hyphen, four digits
Rejected(t) ==
    \/ Cardinality(Inked(t)) <= 1
    \/ \E i \in DOMAIN t : t[i] \in {"\n", "\r"}
    \/ /\ Inked(t) # {}
       /\ \A i \in DOMAIN t :
             (\E j, k \in Inked(t) : j <= i /\ i <= k) => t[i] \in DigitSet
    \/ /\ Len(t) = 11
       /\ \A i \in {1, 2, 3, 5, 6} : t[i] \in Letters
       /\ \A i \in {4, 7} : t[i] = "-"
       /\ \A i \in {8, 9, 10, 11} : t[i] \in DigitSet

\* span is a recognizer candidate: its label stands for a type asked for
Candidate(span) ==
    \E type \in Range(spacy_types(extTypes)) :
        label_mapping(span.label) = Some(type)

\* the texts explored that a date or a money pattern matches
PatternTexts == [type \in {DATE, MONEY} |->
                    IF type = DATE THEN DOMAIN LayoutOf ELSE {Amount, Percentage}]

\* C32: once the recognizer pass of extract_entities has run, a recognizer
\* candidate has been accepted, as an entity of its text and of confidence
\* 0.85, if and only if none of the four rejection rules applies to its text;
\* and every text a date or money pattern matched has been accepted as an
\* entity of confidence 0.90 or 0.95, whether or not a rule applies to it.
C32_FilterOnRecognizerOnly ==
    epc \in {"dedup", "done"} =>
        /\ docEnts # None =>
              \A i \in DOMAIN docEnts[1] :
                  Candidate(docEnts[1][i]) =>
                      ((\E k \in DOMAIN extEntities :
                            /\ extEntities[k].text = docEnts[1][i].text
                            /\ extEntities[k].confidence = 85)
                         <=> ~Rejected(docEnts[1][i].text))
        /\ \A type \in {DATE, MONEY} :
              Extracts(type) =>
                  \A d \in PatternTexts[type] :
                      Contains(extText, d) =>
                          \E k \in DOMAIN extEntities :
                              /\ extEntities[k].type = type
                              /\ extEntities[k].text = d
                              /\ extEntities[k].confidence \in {90, 95}

\* with all types requested, "Feb\n13 2025", which has a line break, was
\* labelled a person by the recognizer and matched by a date pattern: it was
\* returned as a date only
C32_Witness ==
    /\ epc = "done"
    /\ extTypes = None
    /\ extText = BrokenDate
    /\ docEnts = Some(<<[text |-> BrokenDate, label |-> "PERSON"]>>)
    /\ extResult = Some(<<Entity(DATE, BrokenDate, Some(Normalized), 90)>>)

\* the candidate lists with the candidates of cands in another order
Permuted(cands) ==
    {[i \in DOMAIN cands |-> cands[f[i]]] :
        f \in {g \in [DOMAIN cands -> DOMAIN cands] :
                  \A i, j \in DOMAIN cands : g[i] = g[j] => i = j}}

\* no two candidates of one (type, text) pair have the same confidence
TieFree(cands) ==
    \A i, j \in DOMAIN cands :
        (Key(cands[i]) = Key(cands[j])
            /\ cands[i].confidence = cands[j].confidence) => i = j

\* C33 as stated: a candidate list without confidence ties and the same
\* candidates in any other order are deduplicated to the same list.
C33_SameOutputInAnyOrder ==
    (epc = "done" /\ TieFree(extEntities)) =>
        \A other \in Permuted(extEntities) :
            deduplicate_entities(other) = extResult[1]

\* C33: a candidate list without confidence ties and the same candidates in
\* any other order are deduplicated to the same entities; the lists returned
\* may differ in the order of these entities.
C33_SameEntitiesInAnyOrder ==
    (epc = "done" /\ TieFree(extEntities)) =>
        \A other \in Permuted(extEntities) :
            /\ Range(deduplicate_entities(other)) = Range(extResult[1])
            /\ Len(deduplicate_entities(other)) = Len(extResult[1])

\* three candidates without ties, two of them of one pair with the lower
\* confidence first, were deduplicated; in another order they give the same
\* two entities in the other order
C33_Witness ==
    /\ epc = "done"
    /\ Len(extEntities) = 3
    /\ TieFree(extEntities)
    /\ Len(extResult[1]) = 2
    /\ Key(extEntities[1]) = Key(extEntities[3])
    /\ extEntities[1].confidence < extEntities[3].confidence
    /\ \E other \in Permuted(extEntities) :
          deduplicate_entities(other) = <<extResult[1][2], extResult[1][1]>>

\* the first position in cands of a candidate with the key of entity
FirstIndex(cands, entity) ==
    CHOOSE i \in DOMAIN cands :
        /\ Key(cands[i]) = Key(entity)
        /\ \A j \in 1..(i - 1) : Key(cands[j]) # Key(entity)

\* C39: the list _deduplicate_entities returns is deduplicated to itself, and
\* its entities stand in the order in which their (type, text) pairs first
\* occur in the candidate list.
C39_DedupIdempotentAndOrdered ==
    epc = "done" =>
        /\ deduplicate_entities(extResult[1]) = extResult[1]
        /\ \A a, b \in DOMAIN extResult[1] :
              a < b => FirstIndex(extEntities, extResult[1][a])
                          < FirstIndex(extEntities, extResult[1][b])

\* three candidates of two pairs were deduplicated, the third replacing the
\* first: it stands first in the list returned, before the second
C39_Witness ==
    /\ epc = "done"
    /\ Len(extEntities) = 3
    /\ Key(extEntities[1]) = Key(extEntities[3])
    /\ Key(extEntities[1]) # Key(extEntities[2])
    /\ extEntities[1].confidence < extEntities[3].confidence
    /\ extResult = Some(<<extEntities[3], extEntities[2]>>)

(* -------------------- further claims about the jobs --------------------- *)
\* the pipeline runs dispatched for job id that have not ended
InFlight(id) == {r \in Runs : runs[r].job_id = id /\ runs[r].pc # "done"}

\* C36: no job ever has two pipeline runs in flight, and a start_processing
\* request for a job that has a run in flight is rejected, as already being
\* processed, or as not found if the job was deleted meanwhile: it dispatches
\* nothing and leaves the jobs as they are.
C36_OneRunInFlight ==
    [][/\ \A id \in JobIds : Cardinality(InFlight(id))' <= 1
       /\ (lastOp'.op = "process_pdf" /\ InFlight(lastOp'.id) # {}) =>
             /\ lastOp'.result
                   = IF lastOp'.id \in DOMAIN jobs
                     THEN HttpError(400, "Job is already being processed")
                     ELSE HttpError(404, "Job not found")
             /\ UNCHANGED <<jobs, runs>>]_vars

\* a start_processing request has been rejected, for a job whose pipeline run,
\* dispatched by an earlier request, has not started yet
C36_Witness ==
    /\ lastOp.op = "process_pdf"
    /\ lastOp.result = HttpError(400, "Job is already being processed")
    /\ \E r \in InFlight(lastOp.id) : runs[r].pc = "start"

\* the ids of the jobs that were deleted
Deleted == DOMAIN statusLog \ DOMAIN jobs

OnlyCreateJobAddsIds ==
    [][(DOMAIN jobs' \subseteq DOMAIN jobs) \/ lastOp'.op = "create_job"]_vars

\* the progress values the requests and the pipeline write
Checkpoints == {0, 5, 10, 30, 50, 90, 100}

\* C38: in every state every job of the registry has status Completed if and
\* only if its progress is 100, and its progress is one of 0, 5, 10, 30, 50,
\* 90 and 100.
C38_CompletedIffProgress100 ==
    \A id \in DOMAIN jobs :
        /\ jobs[id].status = COMPLETED <=> jobs[id].progress = 100
        /\ jobs[id].progress \in Checkpoints

\* a job that failed once at progress 50 and was started again is Completed
\* with progress 100
C38_Witness ==
    \E id \in DOMAIN jobs :
        /\ jobs[id].status = COMPLETED
        /\ jobs[id].progress = 100
        /\ \E k \in DOMAIN statusLog[id] : statusLog[id][k] = FAILED

(* ---------------------- claim about output lengths ---------------------- *)
\* C34: the pair _get_length_params returns is (30, 60) for brief, (100, 200)
\* for detailed and (50, 100) for bullet points when no limit is given; with a
\* limit L >= 1 its max is L and its min is the smaller of the default min of
\* the mode and L halved, rounded down.
C34_LengthPairs ==
    hfLengths # None =>
        LET default == CASE hfMode = "brief" -> <<30, 60>>
                         [] hfMode = "detailed" -> <<100, 200>>
                         [] hfMode = "bullets" -> <<50, 100>>
        IN /\ hfMaxLength = None => hfLengths[1] = default
           /\ (hfMaxLength # None /\ hfMaxLength[1] >= 1) =>
                 /\ hfLengths[1][2] = hfMaxLength[1]
                 /\ hfLengths[1][1]
                       = IF default[1] <= hfMaxLength[1] \div 2
                         THEN default[1] ELSE hfMaxLength[1] \div 2

\* C34, with the cap: without a limit the pair is the default of the mode; with
\* a limit L >= 1 the max is L up to 200 and 200 above it, and the min is the
\* smaller of the default min of the mode and that max halved, rounded down.
C34_LengthPairsCapped ==
    hfLengths # None =>
        LET default == CASE hfMode = "brief" -> <<30, 60>>
                         [] hfMode = "detailed" -> <<100, 200>>
                         [] hfMode = "bullets" -> <<50, 100>>
            capped == IF hfMaxLength[1] <= 200 THEN hfMaxLength[1] ELSE 200
        IN /\ hfMaxLength = None => hfLengths[1] = default
           /\ (hfMaxLength # None /\ hfMaxLength[1] >= 1) =>
                 /\ hfLengths[1][2] = capped
                 /\ hfLengths[1][1]
                       = IF default[1] <= capped \div 2
                         THEN default[1] ELSE capped \div 2

\* a limit above 200 was given and the pair came back with the max at 200
C34_Witness ==
    /\ hfMaxLength # None
    /\ hfMaxLength[1] > 200
    /\ hfLengths = Some(<<30, 200>>)

=============================================================================
